---- MODULE Spec2Model ----
(***************************************************************************)
(* Neon Slope: the gameplay core of the endless runner.                    *)
(*                                                                         *)
(*   store.ts                 the zustand store (RunState): every `set`    *)
(*                            is synchronous                               *)
(*   TrackManager (part_001)  segment generator, live window, per-frame    *)
(*                            collision oracle; its window and its         *)
(*                            collected-id sets are React state, so a      *)
(*                            setter call is queued and only becomes       *)
(*                            visible to the frame callback at a commit    *)
(*   Player.tsx               locomotion, camera follow, score floor       *)
(*   UI (part_000), App.tsx   lifecycle transitions driven by the user     *)
(*                                                                         *)
(* Units.  Lengths are integers in quarter world units (Scale = 4), so     *)
(* the code's 6.5, 3.5 and 6.25 are exact.  Angles are hundredths of a     *)
(* radian, sines and cosines hundredths (table Sin100/Cos100), products    *)
(* are rounded to the nearest integer.  currentSpeed is in hundredths      *)
(* (1.0 = 100, 0.05 = 5, 2.0 = 200).                                       *)
(***************************************************************************)
EXTENDS Integers, Sequences, FiniteSets, TLC

(***************************************************************************)
(* Bounds of the model (not program constants).                            *)
(***************************************************************************)
\* largest platformsCleared explored by the store-level specification
MaxCleared == 214
\* largest persisted coin balance / high score drawn in Init
MaxSaved == 1
\* resetGame calls explored per behaviour
MaxRuns == 2
\* largest segment index the generator is asked for
MaxIndex == 13
\* frames that may run before React commits the queued window updates
MaxStaleTicks == 2
\* seeds of Math.random drawn in Init
MaxSeed == 1
\* store calls per behaviour of the store-level specification
MaxCalls == 4
\* largest displacement (world units) handed to the score floor there
MaxFloor == 15
\* frames followed per behaviour while PLAYING
MaxFrames == 5
\* pauses per behaviour
MaxPauses == 1
\* frames per behaviour that may read a position reported before a reset
MaxStaleFrames == 1
\* largest segment index spawned by the generator-level specification
MaxTrackIndex == 41
\* largest final score handed to the commentary
MaxCommentScore == 3
\* largest coin balance drawn by the shop-level specification
MaxShopCoins == 2
\* shop requests per behaviour of the shop-level specification
MaxShopCalls == 3
\* the last index spawned when the ball reaches the heart of platform 20
LastAtHeart == 28
\* addToLeaderboard calls per behaviour of the leaderboard-level specification
MaxBoardCalls == 11
\* largest score submitted to the leaderboard
MaxBoardScore == 3

(***************************************************************************)
(* Program constants.                                                      *)
(***************************************************************************)
Scale == 4
maxLives == 3
PatternLength == 20
SpeedEvery == 10
SpeedStep == 5
SpeedBase == 100
SpeedCap == 200
InitialSegments == 12
SafeSegments == 6
HeartEvery == 20

GameStates == {"MENU", "PLAYING", "PAUSED", "GAME_OVER",
               "LEADERBOARD", "SHOP", "OPTIONS", "INFO"}
UIScreens == {"LEADERBOARD", "SHOP", "OPTIONS", "INFO"}
FLAT == "FLAT_WITH_OBSTACLES"
NONFLAT == "NON_FLAT_NO_OBSTACLES"

\* the element of a one-element set: Only({e(x) : x \in {v}}) is e(v), with v
\* computed once
Only(S) == CHOOSE x \in S : TRUE

Max(a, b) == IF a >= b THEN a ELSE b
Min(a, b) == IF a <= b THEN a ELSE b
Abs(a) == IF a >= 0 THEN a ELSE -a

VARIABLES
    store,              \* the zustand store
    prevGameState,      \* TrackManager.prevGameState ref
    segments,           \* TrackManager `segments` state, as last committed
    collectedCoins,     \* `collectedCoins` state, as last committed
    collectedHearts,    \* `collectedHearts` state, as last committed
    segQ,               \* queued setSegments calls, oldest first
    coinQ,              \* queued setCollectedCoins calls
    heartQ,             \* queued setCollectedHearts calls
    nextStartPos,       \* TrackManager.nextStartPos ref (the cursor)
    platformCounter,    \* TrackManager.platformCounter ref
    lastClearedPlatform,\* TrackManager.lastClearedPlatform ref
    rng,                \* state of Math.random
    pos,                \* Player.pos ref: the cached physics position
    posFresh,           \* a position callback arrived since the last PLAYING frame
    camera,             \* camera.position
    canJump,            \* Player.canJump ref
    commentary,         \* GameOverScreen: the commentary promise and its state
    hist,               \* history: run counters used to state the claims
    last                \* history: the last store call observed and its result

vars == <<store, prevGameState, segments, collectedCoins,
          collectedHearts, segQ, coinQ, heartQ, nextStartPos, platformCounter,
          lastClearedPlatform, rng, pos, posFresh, camera, canJump,
          commentary, hist, last>>

windowVars == <<segments, collectedCoins, collectedHearts>>
queueVars == <<segQ, coinQ, heartQ>>
refVars == <<nextStartPos, platformCounter, lastClearedPlatform, rng>>
trackVars == <<prevGameState, windowVars, queueVars, refVars>>
playerVars == <<pos, posFresh, camera, canJump>>

(***************************************************************************)
(* store.ts                                                                *)
(***************************************************************************)
InitialStore(savedCoins, savedHighScore) ==
    [gameState |-> "MENU", score |-> 0, highScore |-> savedHighScore,
     platformsCleared |-> 0, currentSpeed |-> SpeedBase, lives |-> 1,
     coins |-> savedCoins, totalCoinsCollected |-> 0,
     currentPattern |-> FLAT, patternPlatformCount |-> 0]

setGameState(s, state) == [s EXCEPT !.gameState = state]

\* a wrong speed (no cap), to try SpeedByCredits on
SpeedForUncapped(n) == SpeedBase + (n \div SpeedEvery) * SpeedStep

\* Math.min(1.0 + Math.floor(n / 10) * 0.05, 2.0), in hundredths
SpeedFor(n) == Min(SpeedBase + (n \div SpeedEvery) * SpeedStep, SpeedCap)

OtherPattern(p) == IF p = FLAT THEN NONFLAT ELSE FLAT

\* a wrong credit (the pattern switches after 21), to try PatternByCredits on
incrementPlatformsClearedLate(s) ==
    LET newCount == s.platformsCleared + 1
        newPatternCount == s.patternPlatformCount + 1
        switch == newPatternCount > PatternLength
        newScore == s.score + 1
    IN  [s EXCEPT !.platformsCleared = newCount,
                  !.patternPlatformCount = IF switch THEN 0 ELSE newPatternCount,
                  !.currentPattern = IF switch THEN OtherPattern(s.currentPattern)
                                     ELSE s.currentPattern,
                  !.score = newScore,
                  !.highScore = Max(s.highScore, newScore),
                  !.currentSpeed = SpeedFor(newCount)]

incrementPlatformsCleared(s) ==
    LET newCount == s.platformsCleared + 1
        newPatternCount == s.patternPlatformCount + 1
        switch == newPatternCount >= PatternLength
        newScore == s.score + 1
    IN  [s EXCEPT !.platformsCleared = newCount,
                  !.patternPlatformCount = IF switch THEN 0 ELSE newPatternCount,
                  !.currentPattern = IF switch THEN OtherPattern(s.currentPattern)
                                     ELSE s.currentPattern,
                  !.score = newScore,
                  !.highScore = Max(s.highScore, newScore),
                  !.currentSpeed = SpeedFor(newCount)]

\* a wrong reset (the purse is emptied too), to try RetryResets on
resetGameAndCoins(s) ==
    [s EXCEPT !.score = 0, !.platformsCleared = 0, !.lives = 1,
              !.totalCoinsCollected = 0, !.currentSpeed = SpeedBase,
              !.currentPattern = FLAT, !.patternPlatformCount = 0, !.coins = 0]

resetGame(s) ==
    [s EXCEPT !.score = 0, !.platformsCleared = 0, !.lives = 1,
              !.totalCoinsCollected = 0, !.currentSpeed = SpeedBase,
              !.currentPattern = FLAT, !.patternPlatformCount = 0]

\* a wrong addLife (no cap), to try LivesInRange on
addLifeUncapped(s) == [s EXCEPT !.lives = s.lives + 1]

addLife(s) == [s EXCEPT !.lives = Min(s.lives + 1, maxLives)]

\* a wrong loseLife (the last life is not terminal), to try LoseLifeContract on
loseLifeLate(s) ==
    IF s.lives < 1
    THEN [store |-> [s EXCEPT !.lives = 0], ret |-> TRUE]
    ELSE [store |-> [s EXCEPT !.lives = s.lives - 1], ret |-> FALSE]

\* a wrong loseLife (it ends the game itself), to try LoseLifeOnlyLives on
loseLifeEnding(s) ==
    IF s.lives <= 1
    THEN [store |-> [s EXCEPT !.lives = 0, !.gameState = "GAME_OVER"],
          ret |-> TRUE]
    ELSE [store |-> [s EXCEPT !.lives = s.lives - 1], ret |-> FALSE]

\* loseLife returns a boolean: the pair [store, ret]
loseLife(s) ==
    IF s.lives <= 1
    THEN [store |-> [s EXCEPT !.lives = 0], ret |-> TRUE]
    ELSE [store |-> [s EXCEPT !.lives = s.lives - 1], ret |-> FALSE]

collectCoin(s) ==
    [s EXCEPT !.coins = s.coins + 1,
              !.totalCoinsCollected = s.totalCoinsCollected + 1]

\* a wrong updateSpeed (the step is taken every 9 platforms), to try
\* SpeedSitesAgree on
updateSpeedEveryNine(s) ==
    LET newSpeed == Min(SpeedBase + (s.platformsCleared \div 9) * SpeedStep,
                        SpeedCap)
    IN  IF newSpeed # s.currentSpeed THEN [s EXCEPT !.currentSpeed = newSpeed]
        ELSE s

updateSpeed(s) ==
    LET newSpeed == SpeedFor(s.platformsCleared)
    IN  IF newSpeed # s.currentSpeed THEN [s EXCEPT !.currentSpeed = newSpeed]
        ELSE s

\* a wrong score floor (no max), to try ScoreMonotone on
scoreFloorAssign(s, currentScore) == [s EXCEPT !.score = currentScore]

\* Player.useFrame's score floor: setState(score: max(score, currentScore))
scoreFloor(s, currentScore) == [s EXCEPT !.score = Max(s.score, currentScore)]

\* wrong callers (the result of loseLife is dropped), to try
\* GameOverByLastLife on
loseLifeNoEnd(s) ==
    LET r == loseLife(s)
    IN  [store |-> r.store, ret |-> r.ret]

\* what both callers of loseLife do with its result
loseLifeAndEnd(s) ==
    LET r == loseLife(s)
    IN  [store |-> IF r.ret THEN setGameState(r.store, "GAME_OVER") ELSE r.store,
         ret |-> r.ret]

\* MainMenu.handleStart and GameOverScreen.handleRetry
handleStart(s) == setGameState(resetGame(s), "PLAYING")
handleRetry(s) == setGameState(resetGame(s), "PLAYING")


(***************************************************************************)
(* three.js vectors and Euler rotations, in fixed point.                   *)
(***************************************************************************)
Vec(x, y, z) == <<x, y, z>>
VAdd(a, b) == <<a[1] + b[1], a[2] + b[2], a[3] + b[3]>>
VSub(a, b) == <<a[1] - b[1], a[2] - b[2], a[3] - b[3]>>
\* squared Euclidean distance: distanceTo(p) < r is Dist2(..) < r * r
Dist2(a, b) ==
    LET d == VSub(a, b) IN d[1] * d[1] + d[2] * d[2] + d[3] * d[3]

\* n / 100 rounded to the nearest integer
Round100(n) == (n + 50) \div 100

\* 100 * sin and 100 * cos of an angle given in hundredths of a radian
SinTable(a) ==
    CASE a = 0 -> 0 [] a = 10 -> 10 [] a = 15 -> 15 [] a = 30 -> 30
      [] a = 40 -> 39 [] a = 50 -> 48 [] a = 75 -> 68
Sin100(a) == IF a >= 0 THEN SinTable(a) ELSE -SinTable(-a)
Cos100(a) ==
    LET b == Abs(a)
    IN  CASE b = 0 -> 100 [] b = 10 -> 100 [] b = 15 -> 99 [] b = 30 -> 96
          [] b = 40 -> 92 [] b = 50 -> 88 [] b = 75 -> 73

RotX(v, a) == <<v[1],
                Round100(v[2] * Cos100(a) - v[3] * Sin100(a)),
                Round100(v[2] * Sin100(a) + v[3] * Cos100(a))>>
RotY(v, a) == <<Round100(v[1] * Cos100(a) + v[3] * Sin100(a)),
                v[2],
                Round100(v[3] * Cos100(a) - v[1] * Sin100(a))>>
RotZ(v, a) == <<Round100(v[1] * Cos100(a) - v[2] * Sin100(a)),
                Round100(v[1] * Sin100(a) + v[2] * Cos100(a)),
                v[3]>>

\* Vector3.applyEuler for new Euler(x, y, z) (order XYZ) and for order YXZ
ApplyEulerXYZ(v, x, y, z) == RotX(RotY(RotZ(v, z), y), x)
ApplyEulerYXZ(v, x, y, z) == RotY(RotX(RotZ(v, z), x), y)

\* getWorldPos(local, segPos, segRot)
getWorldPos(local, seg) ==
    VAdd(ApplyEulerXYZ(local, seg.slope, seg.yaw, seg.bank), seg.position)

(***************************************************************************)
(* Math.random.  One record holds the draws of one generateSegment call;   *)
(* the generator state walks a fixed table of such records, so each seed   *)
(* (the initial value of rng) gives one sequence of segments.              *)
(*   rand    the variant draw, in percent                                  *)
(*   steep   the STEEP slope draw: slope = -50 - steep                     *)
(*   sign    the draw `Math.random() > 0.5` of BANKED and TURN             *)
(*   count   Math.floor(Math.random() * 3)                                 *)
(*   obs     per obstacle: oz in percent of (Math.random() - 0.5), lane,   *)
(*           jitter, the centre-lane draw `Math.random() > 0.4`, moving,   *)
(*           speed (hundredths) and range                                  *)
(*   coinX, coinZ   (Math.random() - 0.5) in percent                       *)
(***************************************************************************)
ObsDraw(oz, lane, skip, moving) ==
    [oz |-> oz, lane |-> lane, jitter |-> 0, skip |-> skip, moving |-> moving,
     speed |-> 250, range |-> 3 * Scale]

DrawTable ==
    << [rand |-> 80, steep |-> 0, sign |-> TRUE, count |-> 0,
        obs |-> <<>>, coinX |-> 0, coinZ |-> 0],
       [rand |-> 60, steep |-> 25, sign |-> FALSE, count |-> 1,
        obs |-> <<ObsDraw(0, 0, FALSE, FALSE)>>, coinX |-> 0, coinZ |-> 0],
       [rand |-> 10, steep |-> 0, sign |-> TRUE, count |-> 2,
        obs |-> <<ObsDraw(-25, 1, TRUE, FALSE), ObsDraw(25, 2, FALSE, TRUE)>>,
        coinX |-> 25, coinZ |-> -25] >>

Seeds == 1 .. MaxSeed
NextRng(r) == (r % Len(DrawTable)) + 1

(***************************************************************************)
(* TrackManager.generateSegment                                            *)
(***************************************************************************)
\* a wrong selection (NARROW is drawn whatever the pattern), to try
\* SegmentEligible on
SegmentTypeForAnyPattern(index, pattern, rand) ==
    IF index <= 8 THEN "NORMAL"
    ELSE IF rand < 15 THEN "NARROW"
    ELSE IF pattern = FLAT THEN "NORMAL"
         ELSE (IF rand < 25 THEN "STEEP"
               ELSE IF rand < 50 THEN "TURN"
               ELSE IF rand < 70 THEN "BANKED" ELSE "NORMAL")

SegmentTypeFor(index, pattern, rand) ==
    IF index <= 8 THEN "NORMAL"
    ELSE IF pattern = FLAT
         THEN (IF rand < 15 THEN "NARROW" ELSE "NORMAL")
         ELSE (IF rand < 25 THEN "STEEP"
               ELSE IF rand < 50 THEN "TURN"
               ELSE IF rand < 70 THEN "BANKED" ELSE "NORMAL")

\* one obstacle of the loop body, or <<>> when the centre lane is skipped
ObstacleFor(index, i, width, length, d) ==
    LET lanex == IF d.lane = 0 THEN -((width * Scale * 10) \div 28)
                 ELSE IF d.lane = 2 THEN (width * Scale * 10) \div 28 ELSE 0
        ox == lanex + d.jitter
        oz == (d.oz * length * Scale * 8) \div 1000
    IN  IF d.lane = 1 /\ d.skip THEN <<>>
        ELSE << [id |-> <<index, i>>,
                 position |-> Vec(ox, 25, oz),
                 type |-> IF d.moving THEN "moving" ELSE "static",
                 movingSpeed |-> IF d.moving THEN d.speed ELSE 0,
                 movingRange |-> IF d.moving THEN d.range ELSE 0] >>

\* a wrong loop test (i <= obstacleCount: one obstacle more), to try
\* ClearLane on
RECURSIVE ObstaclesFromThrough(_, _, _, _, _, _)
ObstaclesFromThrough(index, i, count, width, length, draws) ==
    IF i > count THEN <<>>
    ELSE ObstacleFor(index, i, width, length, draws[i + 1])
         \o ObstaclesFromThrough(index, i + 1, count, width, length, draws)

\* a wrong test (obstacles under either pattern), to try ObstaclesOnlyOnFlat
\* on
HasObstaclesAnyPattern(index, pattern) == index > 5

\* the test that lets a segment carry obstacles
HasObstacles(index, pattern) == pattern = FLAT /\ index > 5

RECURSIVE ObstaclesFrom(_, _, _, _, _, _)
ObstaclesFrom(index, i, count, width, length, draws) ==
    IF i >= count THEN <<>>
    ELSE ObstacleFor(index, i, width, length, draws[i + 1])
         \o ObstaclesFrom(index, i + 1, count, width, length, draws)

\* a wrong test (platform 0 carries a heart too), to try HeartEveryTwenty on
HasHeartAtZero(index) == index % HeartEvery = 0

HasHeart(index) == index > 0 /\ index % HeartEvery = 0

\* the segment generated for `index` from cursor `start` under `pattern`
\* with the draws d, and the cursor after it
generateSegment(index, pattern, start, d) ==
    LET type == SegmentTypeFor(index, pattern, d.rand)
        width == CASE type = "NARROW" -> 6 [] type = "BANKED" -> 22
                   [] type = "TURN" -> 20 [] OTHER -> 16
        length == CASE type = "STEEP" -> 80 [] type = "NARROW" -> 65
                    [] type = "TURN" -> 70 [] OTHER -> 55
        slope == IF type = "STEEP" THEN -50 - d.steep
                 ELSE IF pattern = FLAT THEN -10 ELSE -15
        bank == IF type = "BANKED" THEN (IF d.sign THEN 40 ELSE -40) ELSE 0
        yaw == IF type = "TURN" THEN (IF d.sign THEN 30 ELSE -30) ELSE 0
        fwd == ApplyEulerYXZ(Vec(0, 0, -100), slope, yaw, 0)
        half == (length * Scale) \div 2
        center == VAdd(start, Vec(Round100(fwd[1] * half), Round100(fwd[2] * half),
                                  Round100(fwd[3] * half)))
        end == VAdd(start, Vec(Round100(fwd[1] * 2 * half),
                               Round100(fwd[2] * 2 * half),
                               Round100(fwd[3] * 2 * half)))
        isNarrow == width < 9
        obstacleCount == IF isNarrow THEN 0 ELSE d.count
        obstacles == IF HasObstacles(index, pattern)
                     THEN ObstaclesFrom(index, 0, obstacleCount, width, length, d.obs)
                     ELSE <<>>
        coin == [id |-> index,
                 position |-> Vec((d.coinX * width * Scale * 6) \div 1000, 26,
                                  (d.coinZ * length * Scale * 5) \div 1000)]
        heart == IF HasHeart(index)
                 THEN <<[id |-> index, position |-> Vec(0, 28, 0)]>> ELSE <<>>
    IN  [seg |-> [platformIndex |-> index, position |-> center, length |-> length,
                  width |-> width, slope |-> slope, bank |-> bank, yaw |-> yaw,
                  type |-> type, obstacles |-> obstacles, coin |-> coin,
                  heart |-> heart],
         next |-> end]

\* wrong overrides (the values of the NARROW case), to try SafeStart on
SafeOverrideNarrow(seg) ==
    [seg EXCEPT !.type = "NARROW", !.width = 6, !.bank = 0, !.yaw = 0,
                !.slope = -10, !.obstacles = <<>>]

\* the overrides initTrack applies to the first six segments
SafeOverride(seg) ==
    [seg EXCEPT !.type = "NORMAL", !.width = 16, !.bank = 0, !.yaw = 0,
                !.slope = -10, !.obstacles = <<>>]

\* initTrack's loop from index i: [segs, next, rng]
RECURSIVE InitialFrom(_, _, _, _)
InitialFrom(i, pattern, start, r) ==
    IF i >= InitialSegments THEN [segs |-> <<>>, next |-> start, rng |-> r]
    ELSE Only({ Only({ [segs |-> <<IF i < SafeSegments THEN SafeOverride(g.seg)
                                   ELSE g.seg>> \o rest.segs,
                        next |-> rest.next,
                        rng |-> rest.rng] :
                       rest \in {InitialFrom(i + 1, pattern, g.next, NextRng(r))} }) :
                g \in {generateSegment(i, pattern, start, DrawTable[r])} })

Origin == Vec(0, 0, 0)


(***************************************************************************)
(* React state of TrackManager: a setter call is queued; CommitState       *)
(* applies the queue in order (functional updaters see the previous        *)
(* updater's result).  `run` is a history tag: the run a seeded window is  *)
(* for.                                                                    *)
(***************************************************************************)
SegSet(segs, run) == [op |-> "set", segs |-> segs, threshold |-> 0, run |-> run]
SegAppend(seg) == [op |-> "append", segs |-> <<seg>>, threshold |-> 0, run |-> 0]
SegFilter(th) == [op |-> "filter", segs |-> <<>>, threshold |-> th, run |-> 0]
IdsSet(ids, run) == [op |-> "set", ids |-> ids, run |-> run]
IdsAdd(ids) == [op |-> "add", ids |-> ids, run |-> 0]

\* a wrong comparison (keeps what lies behind the margin), to try
\* EvictionByPosition on
BeyondMargin(seg, threshold) == seg.position[3] >= threshold

Behind(seg, threshold) == seg.position[3] < threshold
KeepSegments(segs, threshold) == SelectSeq(segs, LAMBDA seg : Behind(seg, threshold))

ApplySeg(cur, e) ==
    CASE e.op = "set" -> e.segs
      [] e.op = "append" -> cur \o e.segs
      [] e.op = "filter" -> KeepSegments(cur, e.threshold)

ApplyIds(cur, e) == IF e.op = "set" THEN e.ids ELSE cur \cup e.ids

RECURSIVE ApplySegQ(_, _)
ApplySegQ(cur, q) ==
    IF q = <<>> THEN cur ELSE ApplySegQ(ApplySeg(cur, Head(q)), Tail(q))

RECURSIVE ApplyIdsQ(_, _)
ApplyIdsQ(cur, q) ==
    IF q = <<>> THEN cur ELSE ApplyIdsQ(ApplyIds(cur, Head(q)), Tail(q))

\* history: the run tag of the last "set" in a queue, or `cur` when none
RECURSIVE LastSetRun(_, _)
LastSetRun(cur, q) ==
    IF q = <<>> THEN cur
    ELSE LastSetRun(IF Head(q).op = "set" THEN Head(q).run ELSE cur, Tail(q))

\* frames whose window update is still queued
StaleTicks == Len(SelectSeq(segQ, LAMBDA e : e.op = "filter"))

(***************************************************************************)
(* Player.tsx                                                              *)
(***************************************************************************)
PlayerStart == Vec(0, 5 * Scale, 0)
CameraStart == Vec(0, 46, 13 * Scale)
CanvasCamera == Vec(0, 5 * Scale, 10 * Scale)
camOffset == Vec(0, 26, 13 * Scale)

\* Vector3.lerp(target, 0.12)
Lerp(a, b) == <<a[1] + Round100(12 * (b[1] - a[1])),
                a[2] + Round100(12 * (b[2] - a[2])),
                a[3] + Round100(12 * (b[3] - a[3]))>>

\* Math.floor(Math.abs(pos.current.z)), in world units
CurrentScore(p) == Abs(p[3]) \div Scale

\* a jump that leaves the flag set, to try NoDoubleJump on
PlayerFrameKeepsFlag(st, space) ==
    [camera |-> Lerp(camera, VAdd(pos, camOffset)),
     impulse |-> space /\ canJump,
     canJump |-> canJump,
     store |-> scoreFloor(st, CurrentScore(pos))]

\* Player.useFrame while PLAYING: [camera, impulse, canJump, store];
\* impulse tells that api.applyImpulse was called
PlayerFrame(st, space) ==
    [camera |-> Lerp(camera, VAdd(pos, camOffset)),
     impulse |-> space /\ canJump,
     canJump |-> IF space /\ canJump THEN FALSE ELSE canJump,
     store |-> scoreFloor(st, CurrentScore(pos))]

(***************************************************************************)
(* TrackManager.useFrame                                                   *)
(***************************************************************************)
\* 450, 100 and 40 are world units; the hitboxes 3.5 and 3 are in quarter units
SpawnDistance == 450
KeepBehind == 100
CoinHitbox == 14
HeartHitbox == 12
FallMargin == 40

EstimatedPlayerPos(cam) == VSub(cam, Vec(0, 26, 13 * Scale))

\* a wrong comparison (dist <= minDist: the last segment at the minimum
\* distance), to try NearestFirst on
RECURSIVE ScanClosestLast(_, _, _, _, _)
ScanClosestLast(segs, p, i, best, minDist) ==
    IF i > Len(segs) THEN best
    ELSE LET dist == Dist2(p, segs[i].position)
         IN  IF minDist = -1 \/ dist <= minDist
             THEN ScanClosestLast(segs, p, i + 1, i, dist)
             ELSE ScanClosestLast(segs, p, i + 1, best, minDist)

\* the scan for the closest segment: index of the first segment at the
\* minimum distance; minDist = -1 stands for Infinity
RECURSIVE ScanClosest(_, _, _, _, _)
ScanClosest(segs, p, i, best, minDist) ==
    IF i > Len(segs) THEN best
    ELSE LET dist == Dist2(p, segs[i].position)
         IN  IF minDist = -1 \/ dist < minDist
             THEN ScanClosest(segs, p, i + 1, i, dist)
             ELSE ScanClosest(segs, p, i + 1, best, minDist)
ClosestSeg(segs, p) == segs[ScanClosest(segs, p, 1, 1, -1)]

CoinHit(seg, p, collected) ==
    /\ seg.coin.id \notin collected
    /\ Dist2(p, getWorldPos(seg.coin.position, seg)) < CoinHitbox * CoinHitbox

HeartHit(seg, p, collected) ==
    /\ seg.heart # <<>>
    /\ seg.heart[1].id \notin collected
    /\ Dist2(p, getWorldPos(seg.heart[1].position, seg)) < HeartHitbox * HeartHitbox

coinsToAdd(segs, p, collected) ==
    {segs[i].coin.id : i \in {j \in 1 .. Len(segs) : CoinHit(segs[j], p, collected)}}
heartsToAdd(segs, p, collected) ==
    {segs[i].heart[1].id :
        i \in {j \in 1 .. Len(segs) : HeartHit(segs[j], p, collected)}}

\* coinsToAdd.forEach(() => collectCoin()), heartsToAdd.forEach(() => addLife())
RECURSIVE CollectCoins(_, _)
CollectCoins(n, s) == IF n = 0 THEN s ELSE CollectCoins(n - 1, collectCoin(s))
RECURSIVE AddLives(_, _)
AddLives(n, s) == IF n = 0 THEN s ELSE AddLives(n - 1, addLife(s))

FallsBelow(p, seg) == p[2] < seg.position[2] - FallMargin * Scale

\* a fall that ends the game whatever loseLife returns, to try FallDetection
\* on
DeathDetectionAlwaysEnds(st, p, closest) ==
    IF FallsBelow(p, closest) /\ st.lives > 0
    THEN [store |-> setGameState(loseLife(st).store, "GAME_OVER"),
          ret |-> TRUE, called |-> TRUE]
    ELSE [store |-> st, ret |-> FALSE, called |-> FALSE]

\* a fall that spares the last life, to try FallFatal on
DeathDetectionSparesLast(st, p, closest) ==
    IF FallsBelow(p, closest) /\ st.lives > 1
    THEN [store |-> loseLifeAndEnd(st).store, ret |-> loseLifeAndEnd(st).ret,
          called |-> TRUE]
    ELSE [store |-> st, ret |-> FALSE, called |-> FALSE]

\* the death detection at the end of the frame: [store, ret]
DeathDetection(st, p, closest) ==
    IF FallsBelow(p, closest) /\ st.lives > 0
    THEN [store |-> loseLifeAndEnd(st).store, ret |-> loseLifeAndEnd(st).ret,
          called |-> TRUE]
    ELSE [store |-> st, ret |-> FALSE, called |-> FALSE]

NeedsSegment(cam) ==
    Dist2(cam, segments[Len(segments)].position)
        < (SpawnDistance * Scale) * (SpawnDistance * Scale)

\* what the frame reads off the committed window at camera position cam
Observed(cam) ==
    [est |-> EstimatedPlayerPos(cam),
     gen |-> NeedsSegment(cam),
     closest |-> ClosestSeg(segments, EstimatedPlayerPos(cam)),
     coins |-> coinsToAdd(segments, EstimatedPlayerPos(cam), collectedCoins),
     hearts |-> heartsToAdd(segments, EstimatedPlayerPos(cam), collectedHearts)]

\* a wrong credit test (>= for >: the platform under the ball is credited
\* on every tick), to try CreditsMonotoneInRun on
TrackStoreAgain(st, ob) ==
    LET credit == ob.closest.platformIndex >= lastClearedPlatform
        st1 == IF credit THEN incrementPlatformsCleared(st) ELSE st
        st2 == CollectCoins(Cardinality(ob.coins), st1)
        st3 == AddLives(Cardinality(ob.hearts), st2)
    IN  DeathDetection(st3, ob.est, ob.closest)

\* the store calls of the frame, in the code's order: the credit, the
\* collections, the death detection
TrackStore(st, ob) ==
    LET credit == ob.closest.platformIndex > lastClearedPlatform
        st1 == IF credit THEN incrementPlatformsCleared(st) ELSE st
        st2 == CollectCoins(Cardinality(ob.coins), st1)
        st3 == AddLives(Cardinality(ob.hearts), st2)
    IN  DeathDetection(st3, ob.est, ob.closest)

\* a wrong index (one past the last segment of the committed window, not
\* one past the counter ref), to try WindowContiguous on
TrackFrameFromWindow(st, cam, ob) ==
    LET g == generateSegment(segments[Len(segments)].platformIndex + 1,
                             st.currentPattern, nextStartPos, DrawTable[rng])
        threshold == (cam[3] - 13 * Scale) + KeepBehind * Scale
        credit == ob.closest.platformIndex > lastClearedPlatform
    IN  [segQ |-> (IF ob.gen THEN <<SegAppend(g.seg)>> ELSE <<>>)
                  \o <<SegFilter(threshold)>>,
         nextStartPos |-> IF ob.gen THEN g.next ELSE nextStartPos,
         platformCounter |-> IF ob.gen THEN g.seg.platformIndex
                             ELSE platformCounter,
         rng |-> IF ob.gen THEN NextRng(rng) ELSE rng,
         lastClearedPlatform |-> IF credit THEN ob.closest.platformIndex
                                 ELSE lastClearedPlatform,
         credit |-> credit,
         death |-> TrackStore(st, ob)]

\* everything one frame of TrackManager computes from the committed window,
\* the camera position and the store
TrackFrame(st, cam, ob) ==
    LET g == generateSegment(platformCounter + 1, st.currentPattern,
                             nextStartPos, DrawTable[rng])
        threshold == (cam[3] - 13 * Scale) + KeepBehind * Scale
        credit == ob.closest.platformIndex > lastClearedPlatform
    IN  [segQ |-> (IF ob.gen THEN <<SegAppend(g.seg)>> ELSE <<>>)
                  \o <<SegFilter(threshold)>>,
         nextStartPos |-> IF ob.gen THEN g.next ELSE nextStartPos,
         platformCounter |-> IF ob.gen THEN platformCounter + 1
                             ELSE platformCounter,
         rng |-> IF ob.gen THEN NextRng(rng) ELSE rng,
         lastClearedPlatform |-> IF credit THEN ob.closest.platformIndex
                                 ELSE lastClearedPlatform,
         credit |-> credit,
         death |-> TrackStore(st, ob)]

(***************************************************************************)
(* History variables.  hist.run counts resetGame calls; refsRun, windowRun *)
(* and setsRun name the run that the refs (cursor, lastClearedPlatform),   *)
(* the committed window and the committed collected-id sets were seeded    *)
(* for; credits counts the incrementPlatformsCleared calls of this run,    *)
(* coinsHit holds the coin ids collectCoin was called for in it, maxFloor  *)
(* is the largest value the score floor has seen in it; posStale tells     *)
(* that pos was reported before the last reset of the ball; staleFrames,   *)
(* pauses, frames and calls count what the bounds limit; capped tells that *)
(* an addLife call has found lives = maxLives; heartsHit holds the heart   *)
(* ids the frames of this run called addLife for and lifeCalls counts      *)
(* those calls; indexBase is the platformCounter the bound on spawned      *)
(* indices is counted from; impulses counts the jump impulses applied and  *)
(* sinceJump tells what has happened to the ball since the last of them    *)
(* ("none": no impulse yet, "jumped": nothing, "collided": a collision     *)
(* event; "off": jumps are not followed); fallTicks counts the frames in   *)
(* which the fall condition held at the death detection (-1: falls are not *)
(* followed).                                                              *)
(***************************************************************************)
Did(op, ret) == [op |-> op, ret |-> ret]

InitialHist ==
    [run |-> 0, refsRun |-> 1, windowRun |-> 0, setsRun |-> 0, credits |-> 0,
     coinsHit |-> {}, maxFloor |-> 0, posStale |-> FALSE, staleFrames |-> 0,
     pauses |-> 0, frames |-> 0, calls |-> 0, capped |-> FALSE,
     heartsHit |-> {}, lifeCalls |-> 0, indexBase |-> 0,
     sinceJump |-> "off", impulses |-> 0, fallTicks |-> -1]

NewRun(h) ==
    [h EXCEPT !.run = h.run + 1, !.credits = 0, !.coinsHit = {}, !.maxFloor = 0,
              !.heartsHit = {}, !.lifeCalls = 0]

(***************************************************************************)
(* A change of gameState.  The store notifies its subscribers              *)
(* synchronously: the canvas components re-render with the new gameState   *)
(* and their effects on [gameState] run before the next frame.             *)
(*   TrackManager: initTrack on MENU or on GAME_OVER -> PLAYING; initTrack *)
(*     resets the refs at once and queues the three setter calls           *)
(*   Player: on PLAYING, reset of the ball, the camera and the jump flag   *)
(* s is the store after the change, h the history after it.  A window      *)
(* seeded on entering MENU is for the run the next start begins; one       *)
(* seeded on a restart is for the run already begun.                       *)
(***************************************************************************)
\* a wrong test (level-triggered: any entry into PLAYING restarts), to try
\* ReseedOnEdge on
IsRestartingLevel(state) == state = "PLAYING"

IsRestarting(state) == prevGameState = "GAME_OVER" /\ state = "PLAYING"

ChangeGameState(s, h) ==
    LET state == s.gameState
        reseed == state = "MENU" \/ IsRestarting(state)
        run == IF state = "MENU" THEN h.run + 1 ELSE h.run
    IN  /\ store' = s
        /\ prevGameState' = state
        /\ IF reseed
           THEN \E t \in {InitialFrom(0, s.currentPattern, Origin, rng)} :
                /\ nextStartPos' = t.next
                /\ platformCounter' = InitialSegments - 1
                /\ lastClearedPlatform' = -1
                /\ rng' = t.rng
                /\ coinQ' = Append(coinQ, IdsSet({}, run))
                /\ heartQ' = Append(heartQ, IdsSet({}, run))
                /\ segQ' = Append(segQ, SegSet(t.segs, run))
           ELSE UNCHANGED <<refVars, queueVars>>
        /\ hist' = [h EXCEPT !.refsRun = IF reseed THEN run ELSE @,
                             !.posStale = @ \/ state = "PLAYING"]
        /\ IF state = "PLAYING"
           THEN camera' = CameraStart /\ canJump' = FALSE
           ELSE UNCHANGED <<camera, canJump>>
        /\ UNCHANGED <<windowVars, pos, posFresh, last, commentary>>

\* React commits the queued setSegments / setCollected* calls
CommitState ==
    /\ segQ # <<>> \/ coinQ # <<>> \/ heartQ # <<>>
    /\ segments' = ApplySegQ(segments, segQ)
    /\ collectedCoins' = ApplyIdsQ(collectedCoins, coinQ)
    /\ collectedHearts' = ApplyIdsQ(collectedHearts, heartQ)
    /\ segQ' = <<>> /\ coinQ' = <<>> /\ heartQ' = <<>>
    /\ hist' = [hist EXCEPT !.windowRun = LastSetRun(hist.windowRun, segQ),
                            !.setsRun = LastSetRun(hist.setsRun, coinQ)]
    /\ UNCHANGED <<store, prevGameState, refVars, playerVars, last, commentary>>

(***************************************************************************)
(* The physics engine (a black box) reports the ball's position.  The      *)
(* reported positions are those that lead the camera's rest point by one   *)
(* of three vectors: none (the ball is where the camera shows it), ahead   *)
(* along the track, or below it (a fall); with these the 12% lerp moves    *)
(* the camera by half a flat segment, resp. by more than the fall margin.  *)
(* Reports are followed while PLAYING: no other state reads pos.           *)
(***************************************************************************)
LeadNone == Vec(0, 0, 0)
LeadAhead == Vec(0, -100, -900)
LeadFall == Vec(0, -825, 0)
Leads == {LeadNone, LeadAhead, LeadFall}

PositionUpdate ==
    /\ store.gameState = "PLAYING"
    /\ \E lead \in Leads : pos' = VAdd(VSub(camera, camOffset), lead)
    /\ posFresh' = TRUE
    /\ hist' = [hist EXCEPT !.posStale = FALSE]
    /\ UNCHANGED <<store, trackVars, camera, canJump, last, commentary>>

\* Player's onCollide: any contact of the ball enables the jump.  Every
\* entry to PLAYING clears the flag, so contacts in other states are unread.
PlayerCollide ==
    /\ store.gameState = "PLAYING"
    /\ ~canJump
    /\ canJump' = TRUE
    /\ UNCHANGED <<store, trackVars, pos, posFresh, camera, hist, last, commentary>>

\* Obstacle.onCollide with e.body.name === 'player', for an obstacle of a
\* rendered segment; the physics world is stepped in every gameState
MountedObstacles == {i \in 1 .. Len(segments) : segments[i].obstacles # <<>>}

ObstacleCollide ==
    /\ MountedObstacles # {}
    /\ LET r == loseLifeAndEnd(store)
       IN  /\ store' = r.store
           /\ prevGameState' = r.store.gameState
    /\ UNCHANGED <<windowVars, queueVars, refVars, playerVars, hist, last, commentary>>

(***************************************************************************)
(* One rendered frame: Player.useFrame, then TrackManager.useFrame.        *)
(***************************************************************************)
FrameIdle ==
    /\ store.gameState # "PLAYING"
    /\ UNCHANGED vars

FrameBudget ==
    /\ posFresh
    /\ hist.frames < MaxFrames
    /\ hist.posStale => hist.staleFrames < MaxStaleFrames

\* history: the jump impulse of Player.useFrame
JumpHist(h, pf) ==
    IF h.sinceJump # "off" /\ pf.impulse
    THEN [h EXCEPT !.sinceJump = "jumped", !.impulses = @ + 1]
    ELSE h

FrameHist(h) ==
    [h EXCEPT !.maxFloor = Max(h.maxFloor, CurrentScore(pos)),
              !.staleFrames = IF h.posStale THEN @ + 1 ELSE @,
              !.frames = @ + 1]

\* TrackManager.useFrame on a window that is not empty; pf is what
\* Player.useFrame left
TrackManagerFrame(pf) ==
    \E ob \in {Observed(pf.camera)} :
    \E tf \in {TrackFrame(pf.store, pf.camera, ob)} :
       /\ tf.platformCounter <= hist.indexBase + MaxIndex
       /\ store' = tf.death.store
       /\ prevGameState' = tf.death.store.gameState
       /\ segQ' = segQ \o tf.segQ
       /\ coinQ' = IF ob.coins # {} THEN Append(coinQ, IdsAdd(ob.coins))
                   ELSE coinQ
       /\ heartQ' = IF ob.hearts # {} THEN Append(heartQ, IdsAdd(ob.hearts))
                    ELSE heartQ
       /\ nextStartPos' = tf.nextStartPos
       /\ platformCounter' = tf.platformCounter
       /\ lastClearedPlatform' = tf.lastClearedPlatform
       /\ rng' = tf.rng
       /\ hist' = [FrameHist(JumpHist(hist, pf)) EXCEPT
                     !.credits = IF tf.credit THEN @ + 1 ELSE @,
                     !.coinsHit = @ \cup ob.coins,
                     !.heartsHit = @ \cup ob.hearts,
                     !.lifeCalls = @ + Cardinality(ob.hearts),
                     !.fallTicks = IF @ >= 0 /\ FallsBelow(ob.est, ob.closest)
                                   THEN @ + 1 ELSE @,
                     !.capped = @ \/ (ob.hearts # {} /\ pf.store.lives
                                        + Cardinality(ob.hearts) > maxLives)]

\* a wrong guard (gameState only): on an empty window lastSeg is undefined,
\* distToEnd is 0, a segment is spawned and the filter queued; to try
\* EmptyTickIsNoOp on
TrackManagerUnguarded(pf) ==
    \E g \in {generateSegment(platformCounter + 1, pf.store.currentPattern,
                                 nextStartPos, DrawTable[rng])} :
       /\ store' = pf.store
       /\ hist' = FrameHist(JumpHist(hist, pf))
       /\ segQ' = segQ \o <<SegAppend(g.seg),
                              SegFilter((pf.camera[3] - 13 * Scale)
                                        + KeepBehind * Scale)>>
       /\ nextStartPos' = g.next
       /\ platformCounter' = platformCounter + 1
       /\ rng' = NextRng(rng)
       /\ UNCHANGED <<prevGameState, coinQ, heartQ, lastClearedPlatform>>

\* TrackManager.useFrame on an empty window: the guard returns at once; pf
\* is what Player.useFrame left
TrackManagerIdle(pf) ==
    /\ store' = pf.store
    /\ hist' = FrameHist(JumpHist(hist, pf))
    /\ UNCHANGED <<prevGameState, queueVars, refVars>>

Frame ==
    /\ store.gameState = "PLAYING"
    /\ FrameBudget
    /\ StaleTicks < MaxStaleTicks
    /\ \E space \in BOOLEAN :
       \E pf \in {PlayerFrame(store, space)} :
          /\ camera' = pf.camera
          /\ canJump' = pf.canJump
          /\ IF segments = <<>>
             THEN TrackManagerIdle(pf)
             ELSE TrackManagerFrame(pf)
    /\ posFresh' = FALSE
    /\ UNCHANGED <<windowVars, pos, last, commentary>>

(***************************************************************************)
(* The user.  A button is pressed once React has committed what the        *)
(* effects and frames queued (a click is slower than a commit).            *)
(***************************************************************************)
Settled == segQ = <<>> /\ coinQ = <<>> /\ heartQ = <<>>

Start ==
    /\ Settled /\ store.gameState = "MENU"
    /\ hist.run < MaxRuns
    /\ ChangeGameState(handleStart(store), NewRun(hist))

Retry ==
    /\ Settled /\ store.gameState = "GAME_OVER"
    /\ hist.run < MaxRuns
    /\ ChangeGameState(handleRetry(store), NewRun(hist))

\* MAIN MENU on the pause and game-over screens, the back button elsewhere
ToMenu ==
    /\ Settled /\ store.gameState \in {"PAUSED", "GAME_OVER"} \cup UIScreens
    /\ ChangeGameState(setGameState(store, "MENU"), hist)

OpenScreen ==
    /\ Settled /\ store.gameState = "MENU"
    /\ \E screen \in UIScreens :
          ChangeGameState(setGameState(store, screen), hist)

\* togglePause: called by App.tsx and PauseScreen, defined nowhere in
\* store.ts (see StoreTogglePause for the call as the code makes it).  The
\* pause its callers are written for is modelled from the specification
\* (PLAYING <-> PAUSED), so that the PAUSED state can be examined.
togglePause(s) ==
    setGameState(s, IF s.gameState = "PLAYING" THEN "PAUSED" ELSE "PLAYING")

TogglePause ==
    /\ Settled /\ store.gameState \in {"PLAYING", "PAUSED"}
    /\ store.gameState = "PLAYING" => hist.pauses < MaxPauses
    /\ ChangeGameState(togglePause(store),
                       [hist EXCEPT !.pauses = IF store.gameState = "PLAYING"
                                               THEN @ + 1 ELSE @])

(***************************************************************************)
(* generateGameCommentary (geminiService) and the GameOverScreen that      *)
(* calls it.  The async function is a promise walked through its awaits:   *)
(*   pc      "idle" (not called), "awaitGenerate" (model.generateContent   *)
(*           pending), "awaitResponse" (result.response pending),          *)
(*           "resolved" / "rejected" (the promise is settled), "done" (the *)
(*           then-callback has run)                                        *)
(*   text    the value the promise resolved to                             *)
(*   cause   history: why the text is a fallback ("none" when it is the    *)
(*           remote text)                                                  *)
(*   mounted the GameOverScreen that called is still mounted               *)
(*   shown, loading   its `commentary` and `loadingCommentary` state       *)
(* The remote service is a black box: each of its steps may throw or       *)
(* reject, and the text it returns may be empty.                           *)
(***************************************************************************)
NoKeyText == "API key not configured. Set VITE_GEMINI_API_KEY in your environment."
TerminatedText == "Connection terminated. Try again runner."
OfflineText == "Communication systems offline."
ApiKeys == {"", "key"}
RemoteTexts == {"", "Nice run."}

CommentaryIdle ==
    [pc |-> "idle", text |-> "", cause |-> "none", mounted |-> FALSE,
     shown |-> "", loading |-> TRUE]

Resolved(c, text, cause) ==
    [c EXCEPT !.pc = "resolved", !.text = text, !.cause = cause]

\* no catch block (the error leaves the async function), to try
\* CommentaryFallsBack on
Uncaught(c) == [c EXCEPT !.pc = "rejected", !.cause = "threw"]

\* catch (error) { console.error(...); return "Communication systems offline." }
Caught(c) == Resolved(c, OfflineText, "threw")

\* the call up to its first await: the key test, new GoogleGenerativeAI,
\* getGenerativeModel and the generateContent call (threw: one of them threw)
CommentaryCall(c, apiKey, threw) ==
    IF apiKey = "" THEN Resolved(c, NoKeyText, "nokey")
    ELSE IF threw THEN Caught(c)
    ELSE [c EXCEPT !.pc = "awaitGenerate"]

\* await model.generateContent(prompt) settles
AfterGenerate(c, rejected) ==
    IF rejected THEN Caught(c) ELSE [c EXCEPT !.pc = "awaitResponse"]

\* await result.response settles; return response.text() || "Connection ..."
AfterResponse(c, rejected, text) ==
    IF rejected THEN Caught(c)
    ELSE IF text = "" THEN Resolved(c, TerminatedText, "empty")
    ELSE Resolved(c, text, "none")

\* .then(text => { setCommentary(text); setLoadingCommentary(false) }); React
\* drops the updates of an unmounted component
ThenCallback(c) ==
    IF c.mounted THEN [c EXCEPT !.pc = "done", !.shown = c.text, !.loading = FALSE]
    ELSE [c EXCEPT !.pc = "done"]

(***************************************************************************)
(* The game.  Init is the state after the first render on a first launch:  *)
(* the store as created, the components mounted in MENU and TrackManager's *)
(* effect run once (initTrack), its setter calls still queued.             *)
(***************************************************************************)
\* the canvas after initTrack has run under `pattern`
MountedWith(seed, pattern) ==
    \E t \in {InitialFrom(0, pattern, Origin, seed)} :
        /\ prevGameState = "MENU"
        /\ segments = <<>>
        /\ collectedCoins = {}
        /\ collectedHearts = {}
        /\ segQ = <<SegSet(t.segs, 1)>>
        /\ coinQ = <<IdsSet({}, 1)>>
        /\ heartQ = <<IdsSet({}, 1)>>
        /\ nextStartPos = t.next
        /\ platformCounter = InitialSegments - 1
        /\ lastClearedPlatform = -1
        /\ rng = t.rng
        /\ pos = PlayerStart
        /\ posFresh = FALSE
        /\ camera = CanvasCamera
        /\ canJump = FALSE
        /\ commentary = CommentaryIdle

Mounted(seed) == MountedWith(seed, FLAT)

Init ==
    /\ \E seed \in Seeds : Mounted(seed)
    /\ store = InitialStore(0, 0)
    /\ hist = InitialHist
    /\ last = Did("none", FALSE)

Next ==
    \/ CommitState
    \/ PositionUpdate
    \/ PlayerCollide
    \/ ObstacleCollide
    \/ FrameIdle
    \/ Frame
    \/ Start
    \/ Retry
    \/ ToMenu
    \/ OpenScreen
    \/ TogglePause

Spec == Init /\ [][Next]_vars

(***************************************************************************)
(* The store on its own: a run of n platform-clear credits, then up to     *)
(* MaxCalls calls of the store's actions in any order.  The canvas is      *)
(* mounted and left alone.                                                 *)
(***************************************************************************)
\* the store after n more credits
RECURSIVE Credits(_, _)
Credits(n, s) ==
    IF n = 0 THEN s
    ELSE IF n = 1 THEN incrementPlatformsCleared(s)
    ELSE Only({Credits(n - (n \div 2), t) : t \in {Credits(n \div 2, s)}})

\* a callback that has called loseLife, got true and has yet to call
\* setGameState(GAME_OVER): nothing else runs until it has
EndPending ==
    last.op = "loseLife" /\ last.ret /\ store.gameState # "GAME_OVER"

StoreCall(s, op, ret) ==
    /\ ~EndPending
    /\ hist.calls < MaxCalls
    /\ store' = s
    /\ last' = Did(op, ret)
    /\ UNCHANGED commentary

Called(h) == [h EXCEPT !.calls = @ + 1]

StoreCredit ==
    /\ store.platformsCleared < MaxCleared
    /\ StoreCall(incrementPlatformsCleared(store), "incrementPlatformsCleared", FALSE)
    /\ hist' = Called([hist EXCEPT !.credits = @ + 1])
    /\ UNCHANGED <<trackVars, playerVars>>

StoreScoreFloor ==
    /\ StoreCall(scoreFloor(store, MaxFloor), "scoreFloor", FALSE)
    /\ hist' = Called([hist EXCEPT !.maxFloor = Max(@, MaxFloor)])
    /\ UNCHANGED <<trackVars, playerVars>>

StoreCollectCoin ==
    /\ StoreCall(collectCoin(store), "collectCoin", FALSE)
    /\ hist' = Called(hist)
    /\ UNCHANGED <<trackVars, playerVars>>

StoreAddLife ==
    /\ StoreCall(addLife(store), "addLife", FALSE)
    /\ hist' = Called([hist EXCEPT !.capped = @ \/ store.lives = maxLives])
    /\ UNCHANGED <<trackVars, playerVars>>

\* the loseLife() call of Obstacle.onCollide or of the death detection
StoreLoseLife ==
    /\ StoreCall(loseLife(store).store, "loseLife", loseLife(store).ret)
    /\ hist' = Called(hist)
    /\ UNCHANGED <<trackVars, playerVars>>

\* ... and the setGameState(GAME_OVER) that follows it when it returned true
StoreEndGame ==
    /\ EndPending
    /\ store' = setGameState(store, "GAME_OVER")
    /\ last' = Did("setGameState", FALSE)
    /\ UNCHANGED <<trackVars, playerVars, hist, commentary>>

StoreUpdateSpeed ==
    /\ StoreCall(updateSpeed(store), "updateSpeed", FALSE)
    /\ hist' = Called(hist)
    /\ UNCHANGED <<trackVars, playerVars>>

StoreRetry ==
    /\ store.gameState = "GAME_OVER"
    /\ StoreCall(handleRetry(store), "handleRetry", FALSE)
    /\ hist' = Called(NewRun(hist))
    /\ UNCHANGED <<trackVars, playerVars>>

\* App.handleKeyDown (P / Escape), App.handleVisibilityChange and the RESUME
\* button call the togglePause they read off the store.  The store object
\* built in store.ts has no such member: the value is undefined, the call
\* throws a TypeError and no state is written.
StoreTogglePause ==
    /\ store.gameState \in {"PLAYING", "PAUSED"}
    /\ StoreCall(store, "togglePause", FALSE)
    /\ hist' = Called(hist)
    /\ UNCHANGED <<trackVars, playerVars>>

InitStore ==
    /\ \E seed \in Seeds : Mounted(seed)
    /\ \E savedCoins \in 0 .. MaxSaved, savedHighScore \in 0 .. MaxSaved,
          n \in 0 .. MaxCleared :
          /\ store = Credits(n, handleStart(InitialStore(savedCoins, savedHighScore)))
          /\ hist = [InitialHist EXCEPT !.run = 1, !.credits = n]
    /\ last = Did("none", FALSE)

NextStore ==
    \/ StoreCredit
    \/ StoreScoreFloor
    \/ StoreCollectCoin
    \/ StoreAddLife
    \/ StoreLoseLife
    \/ StoreEndGame
    \/ StoreUpdateSpeed
    \/ StoreRetry
    \/ StoreTogglePause

SpecStore == InitStore /\ [][NextStore]_vars

(***************************************************************************)
(* The generator on its own.  Init is the MENU screen entered after a run  *)
(* of n credits has ended: initTrack has seeded the window under the       *)
(* pattern that run ended in.  Then the run is started and segments are    *)
(* spawned and platforms credited one at a time, as the frame does (the    *)
(* camera, which decides when, is left out: any order is followed).        *)
(***************************************************************************)
EndedRuns == {0, PatternLength}

\* the spawn branch of TrackManager.useFrame
GenSpawn ==
    /\ store.gameState = "PLAYING" /\ Settled
    /\ platformCounter < MaxTrackIndex
    /\ \E g \in {generateSegment(platformCounter + 1, store.currentPattern,
                                 nextStartPos, DrawTable[rng])} :
          /\ segQ' = <<SegAppend(g.seg)>>
          /\ nextStartPos' = g.next
          /\ platformCounter' = platformCounter + 1
          /\ rng' = NextRng(rng)
    /\ UNCHANGED <<store, prevGameState, windowVars, coinQ, heartQ,
                   lastClearedPlatform, playerVars, hist, last, commentary>>

\* the credit branch of TrackManager.useFrame, for the next platform
GenCredit ==
    /\ store.gameState = "PLAYING"
    /\ lastClearedPlatform < platformCounter
    /\ lastClearedPlatform' = lastClearedPlatform + 1
    /\ store' = incrementPlatformsCleared(store)
    /\ hist' = [hist EXCEPT !.credits = @ + 1]
    /\ UNCHANGED <<prevGameState, windowVars, queueVars, nextStartPos,
                   platformCounter, rng, playerVars, last, commentary>>

InitGen ==
    /\ \E seed \in 1 .. Len(DrawTable), n \in EndedRuns :
          /\ store = setGameState(
                        loseLife(Credits(n, handleStart(InitialStore(0, 0)))).store,
                        "MENU")
          /\ MountedWith(seed, store.currentPattern)
    /\ hist = InitialHist
    /\ last = Did("none", FALSE)

NextGen ==
    \/ CommitState
    \/ Start
    \/ GenSpawn
    \/ GenCredit

SpecGen == InitGen /\ [][NextGen]_vars

(***************************************************************************)
(* An early start: START pressed before React has committed the window     *)
(* that the mount effect queued (the store update of the click is rendered *)
(* synchronously, the queued setSegments later), so that frames run while  *)
(* PLAYING on the empty window.  The run is followed to its end and back   *)
(* to the menu.                                                            *)
(***************************************************************************)
StartEarly ==
    /\ ~Settled /\ segments = <<>> /\ store.gameState = "MENU"
    /\ hist.run < MaxRuns
    /\ ChangeGameState(handleStart(store), NewRun(hist))

NextEarly ==
    \/ StartEarly
    \/ CommitState
    \/ PositionUpdate
    \/ PlayerCollide
    \/ ObstacleCollide
    \/ Frame
    \/ ToMenu

SpecEarly == Init /\ [][NextEarly]_vars

(***************************************************************************)
(* At a heart.  Init is a run in progress with twenty platforms credited:  *)
(* the frames have spawned the segments through LastAtHeart and evicted    *)
(* those behind, every update is committed, and the ball hangs at the      *)
(* heart of platform 20, in the air, the camera at rest behind it.  Then   *)
(* frames, position reports, contacts and commits in any order.            *)
(***************************************************************************)
\* the spawn branch of TrackManager.useFrame, frame after frame, for the
\* indices i .. to: [segs, next, rng]
RECURSIVE SpawnedFrom(_, _, _, _, _)
SpawnedFrom(i, to, pattern, start, r) ==
    IF i > to THEN [segs |-> <<>>, next |-> start, rng |-> r]
    ELSE Only({ Only({ [segs |-> <<g.seg>> \o rest.segs,
                        next |-> rest.next,
                        rng |-> rest.rng] :
                       rest \in {SpawnedFrom(i + 1, to, pattern, g.next,
                                             NextRng(r))} }) :
                g \in {generateSegment(i, pattern, start, DrawTable[r])} })

\* the track generated so far in a run whose credits are below twenty
TrackThrough(to, seed) ==
    Only({ Only({ [segs |-> t.segs \o u.segs, next |-> u.next, rng |-> u.rng] :
                  u \in {SpawnedFrom(InitialSegments, to, FLAT, t.next, t.rng)} }) :
           t \in {InitialFrom(0, FLAT, Origin, seed)} })

\* the camera at rest behind a ball that is at the heart of segment seg
CameraAtHeart(seg) == VAdd(getWorldPos(seg.heart[1].position, seg), camOffset)

InitHeart ==
    \E seed \in Seeds :
    \E t \in {TrackThrough(LastAtHeart, seed)} :
    \E cam \in {CameraAtHeart(t.segs[HeartEvery + 1])} :
        /\ store = scoreFloor(Credits(HeartEvery, handleStart(InitialStore(0, 0))),
                              CurrentScore(VSub(cam, camOffset)))
        /\ prevGameState = "PLAYING"
        /\ segments = KeepSegments(t.segs, (cam[3] - 13 * Scale)
                                              + KeepBehind * Scale)
        /\ collectedCoins = {}
        /\ collectedHearts = {}
        /\ segQ = <<>> /\ coinQ = <<>> /\ heartQ = <<>>
        /\ nextStartPos = t.next
        /\ platformCounter = LastAtHeart
        /\ lastClearedPlatform = HeartEvery - 1
        /\ rng = t.rng
        /\ pos = VSub(cam, camOffset)
        /\ posFresh = TRUE
        /\ camera = cam
        /\ canJump = FALSE
        /\ commentary = CommentaryIdle
        /\ hist = [InitialHist EXCEPT
                     !.run = 1, !.windowRun = 1, !.setsRun = 1,
                     !.credits = HeartEvery,
                     !.maxFloor = CurrentScore(VSub(cam, camOffset)),
                     !.indexBase = LastAtHeart - (InitialSegments - 1)]
        /\ last = Did("none", FALSE)

NextHeart ==
    \/ CommitState
    \/ PositionUpdate
    \/ PlayerCollide
    \/ Frame

SpecHeart == InitHeart /\ [][NextHeart]_vars

(***************************************************************************)
(* A fall.  Init is a run in which the ball has left the track at the      *)
(* heart of platform 20 and is below it by one of FallDepths, the camera   *)
(* behind it, with the lives that obstacles have left.  Frames keep        *)
(* running (useFrame is called on every rendered frame), the physics       *)
(* worker keeps posting positions and React commits what is queued.        *)
(***************************************************************************)
FallDepths == {45 * Scale, 100 * Scale}

InitFall ==
    \E seed \in Seeds, lives \in 1 .. maxLives, depth \in FallDepths :
    \E t \in {TrackThrough(LastAtHeart, seed)} :
    \E cam \in {VSub(CameraAtHeart(t.segs[HeartEvery + 1]), Vec(0, depth, 0))} :
        /\ store = [scoreFloor(Credits(HeartEvery, handleStart(InitialStore(0, 0))),
                               CurrentScore(VSub(cam, camOffset)))
                       EXCEPT !.lives = lives]
        /\ prevGameState = "PLAYING"
        /\ segments = KeepSegments(t.segs, (cam[3] - 13 * Scale)
                                              + KeepBehind * Scale)
        /\ collectedCoins = {}
        /\ collectedHearts = {}
        /\ segQ = <<>> /\ coinQ = <<>> /\ heartQ = <<>>
        /\ nextStartPos = t.next
        /\ platformCounter = LastAtHeart
        /\ lastClearedPlatform = HeartEvery - 1
        /\ rng = t.rng
        /\ pos = VSub(cam, camOffset)
        /\ posFresh = TRUE
        /\ camera = cam
        /\ canJump = FALSE
        /\ commentary = CommentaryIdle
        /\ hist = [InitialHist EXCEPT
                     !.run = 1, !.windowRun = 1, !.setsRun = 1,
                     !.credits = HeartEvery,
                     !.maxFloor = CurrentScore(VSub(cam, camOffset)),
                     !.indexBase = LastAtHeart - (InitialSegments - 1),
                     !.fallTicks = 0]
        /\ last = Did("lives", lives)

NextFall ==
    \/ CommitState
    \/ PositionUpdate
    \/ Frame

SpecFall == InitFall /\ [][NextFall]_vars

SpecFallFair ==
    SpecFall /\ WF_vars(Frame) /\ WF_vars(PositionUpdate) /\ WF_vars(CommitState)

(***************************************************************************)
(* generateSegment on its own.  Init draws the index and the pattern (the  *)
(* one a run of n credits ended in); the action draws Math.random's values *)
(* and generates one segment, which a commit then appends to the window.   *)
(***************************************************************************)
SegmentIndices == {0, 5, 6, 8, 9, HeartEvery}
\* Math.random() in percent, on both sides of every threshold of the variant
RandDraws == {0, 14, 15, 24, 25, 49, 50, 69, 70, 99}
Lanes == 0 .. 2
\* (Math.random() - 0.5) * 2, in quarter units
Jitters == {-3, 3}

\* the draws of one obstacle: lane, jitter, centre-lane skip
ObstacleDraws ==
    {[ObsDraw(25, lane, skip, jitter > 0) EXCEPT !.jitter = jitter] :
        lane \in Lanes, skip \in BOOLEAN, jitter \in Jitters}

\* the draws of one generateSegment call; a third obstacle's draws are at
\* hand though the loop never reads them
SegmentDraws ==
    {[rand |-> rand, steep |-> IF sign THEN 25 ELSE 0, sign |-> sign,
      count |-> count, obs |-> <<o1, o2, ObsDraw(-25, lane, FALSE, FALSE)>>,
      coinX |-> 0, coinZ |-> 0] :
        rand \in RandDraws, sign \in BOOLEAN, count \in 0 .. 2,
        o1 \in ObstacleDraws, o2 \in {o \in ObstacleDraws : o.jitter < 0},
        lane \in Lanes}

SegmentGenerate ==
    /\ segments = <<>> /\ segQ = <<>>
    /\ \E d \in SegmentDraws :
       \E g \in {generateSegment(platformCounter + 1, store.currentPattern,
                                 nextStartPos, d)} :
          /\ segQ' = <<SegAppend(g.seg)>>
          /\ nextStartPos' = g.next
          /\ platformCounter' = platformCounter + 1
    /\ UNCHANGED <<store, prevGameState, windowVars, coinQ, heartQ,
                   lastClearedPlatform, rng, playerVars, commentary, hist, last>>

InitSegment ==
    /\ \E n \in EndedRuns :
          store = setGameState(
                     loseLife(Credits(n, handleStart(InitialStore(0, 0)))).store,
                     "MENU")
    /\ prevGameState = "MENU"
    /\ segments = <<>> /\ collectedCoins = {} /\ collectedHearts = {}
    /\ segQ = <<>> /\ coinQ = <<>> /\ heartQ = <<>>
    /\ nextStartPos = Origin
    /\ \E index \in SegmentIndices : platformCounter = index - 1
    /\ lastClearedPlatform = -1
    /\ rng = 1
    /\ pos = PlayerStart /\ posFresh = FALSE
    /\ camera = CanvasCamera /\ canJump = FALSE
    /\ commentary = CommentaryIdle
    /\ hist = InitialHist
    /\ last = Did("none", FALSE)

NextSegment ==
    \/ SegmentGenerate
    \/ CommitState

SpecSegment == InitSegment /\ [][NextSegment]_vars

(***************************************************************************)
(* Jumps.  The game from its first render, with the jump impulses and the  *)
(* collision events of the ball followed in hist; the ball's body reports  *)
(* a collision in any gameState, whatever the flag holds.                  *)
(***************************************************************************)
\* Player's onCollide, in any gameState
PlayerContact ==
    /\ hist.sinceJump # "off"
    /\ canJump' = TRUE
    /\ hist' = [hist EXCEPT !.sinceJump = IF @ = "jumped" THEN "collided" ELSE @]
    /\ canJump' # canJump \/ hist' # hist
    /\ UNCHANGED <<store, trackVars, pos, posFresh, camera, last, commentary>>

InitJump ==
    /\ \E seed \in Seeds : Mounted(seed)
    /\ store = InitialStore(0, 0)
    /\ hist = [InitialHist EXCEPT !.sinceJump = "none"]
    /\ last = Did("none", FALSE)

NextJump ==
    \/ CommitState
    \/ PositionUpdate
    \/ PlayerContact
    \/ Frame
    \/ Start
    \/ Retry

SpecJump == InitJump /\ [][NextJump]_vars

(***************************************************************************)
(* The nearest-segment scan.  Init is a run just started on the committed  *)
(* opening window, the ball and the camera at rest at a point drawn along  *)
(* the track: over the centre of one of the first platforms, or half way   *)
(* between two of them, where both are at the same distance.               *)
(***************************************************************************)
\* the platforms the ball is drawn over
MaxScanned == 3

Midpoint(a, b) ==
    Vec((a[1] + b[1]) \div 2, (a[2] + b[2]) \div 2, (a[3] + b[3]) \div 2)

\* estimated player positions over the window segs
ScanPoints(segs) ==
    {segs[i].position : i \in 1 .. MaxScanned + 1}
        \cup {Midpoint(segs[i].position, segs[i + 1].position) :
                 i \in 1 .. MaxScanned}

InitScan ==
    \E seed \in Seeds :
    \E t \in {InitialFrom(0, FLAT, Origin, seed)} :
    \E p \in ScanPoints(t.segs) :
        /\ store = handleStart(InitialStore(0, 0))
        /\ prevGameState = "PLAYING"
        /\ segments = t.segs
        /\ collectedCoins = {} /\ collectedHearts = {}
        /\ segQ = <<>> /\ coinQ = <<>> /\ heartQ = <<>>
        /\ nextStartPos = t.next
        /\ platformCounter = InitialSegments - 1
        /\ lastClearedPlatform = -1
        /\ rng = t.rng
        /\ pos = p
        /\ posFresh = TRUE
        /\ camera = VAdd(p, camOffset)
        /\ canJump = FALSE
        /\ commentary = CommentaryIdle
        /\ hist = [InitialHist EXCEPT !.run = 1, !.windowRun = 1, !.setsRun = 1]
        /\ last = Did("none", FALSE)

NextScan ==
    \/ CommitState
    \/ PositionUpdate
    \/ Frame

SpecScan == InitScan /\ [][NextScan]_vars

(***************************************************************************)
(* The opening window.  Init is that of the generator on its own: the MENU *)
(* screen entered after a run of n credits has ended.  Then the game is    *)
(* started and played frame by frame, ended by an obstacle and retried.    *)
(***************************************************************************)
NextOpening ==
    \/ CommitState
    \/ Start
    \/ PositionUpdate
    \/ Frame
    \/ ObstacleCollide
    \/ Retry

SpecOpening == InitGen /\ [][NextOpening]_vars

(***************************************************************************)
(* The shop.  The store also holds ballSkins and backgroundSkins (lists of *)
(* [id, price, owned]) and options (of which the two selected skin ids are *)
(* kept); the specifications above leave these fields out.  The lists come *)
(* from localStorage or from the defaults: Init draws the owned flags and  *)
(* the coin balance.  A void function is an operator that gives the store  *)
(* after the call; a function returning a boolean gives [store, ret].      *)
(***************************************************************************)
SkinIds == <<"default", "neon", "gold">>
SkinPrices == <<0, 1, 2>>
RequestIds == {"default", "neon", "gold", "unknown"}

Skins(owned) ==
    [i \in 1 .. Len(SkinIds) |->
        [id |-> SkinIds[i], price |-> SkinPrices[i], owned |-> owned[i]]]

ShopStore(s, ballSkins, backgroundSkins, options) ==
    [gameState |-> s.gameState, score |-> s.score, highScore |-> s.highScore,
     platformsCleared |-> s.platformsCleared, currentSpeed |-> s.currentSpeed,
     lives |-> s.lives, coins |-> s.coins,
     totalCoinsCollected |-> s.totalCoinsCollected,
     currentPattern |-> s.currentPattern,
     patternPlatformCount |-> s.patternPlatformCount,
     ballSkins |-> ballSkins, backgroundSkins |-> backgroundSkins,
     options |-> options]

\* skins.find(s => s.id === skinId): the index of the first match, 0 for none
FindSkin(skins, skinId) ==
    LET found == {i \in 1 .. Len(skins) : skins[i].id = skinId}
    IN  IF found = {} THEN 0 ELSE CHOOSE i \in found : \A j \in found : i <= j

\* skins.map(s => s.id === skinId ? { ...s, owned: true } : s)
MarkOwned(skins, skinId) ==
    [i \in 1 .. Len(skins) |->
        IF skins[i].id = skinId THEN [skins[i] EXCEPT !.owned = TRUE] ELSE skins[i]]

\* a spend without the balance test, to try PurseSoundByPurchase on
spendCoinsUnchecked(s, amount) ==
    [store |-> [s EXCEPT !.coins = s.coins - amount], ret |-> TRUE]

spendCoins(s, amount) ==
    IF s.coins >= amount
    THEN [store |-> [s EXCEPT !.coins = s.coins - amount], ret |-> TRUE]
    ELSE [store |-> s, ret |-> FALSE]

purchaseBallSkin(s, skinId) ==
    LET i == FindSkin(s.ballSkins, skinId)
    IN  IF i = 0 \/ s.ballSkins[i].owned THEN [store |-> s, ret |-> FALSE]
        ELSE LET r == spendCoins(s, s.ballSkins[i].price)
             IN  IF r.ret
                 THEN [store |-> [r.store EXCEPT
                                    !.ballSkins = MarkOwned(s.ballSkins, skinId)],
                       ret |-> TRUE]
                 ELSE [store |-> r.store, ret |-> FALSE]

purchaseBackgroundSkin(s, skinId) ==
    LET i == FindSkin(s.backgroundSkins, skinId)
    IN  IF i = 0 \/ s.backgroundSkins[i].owned THEN [store |-> s, ret |-> FALSE]
        ELSE LET r == spendCoins(s, s.backgroundSkins[i].price)
             IN  IF r.ret
                 THEN [store |-> [r.store EXCEPT
                                    !.backgroundSkins =
                                        MarkOwned(s.backgroundSkins, skinId)],
                       ret |-> TRUE]
                 ELSE [store |-> r.store, ret |-> FALSE]

selectBallSkin(s, skinId) ==
    LET i == FindSkin(s.ballSkins, skinId)
    IN  IF i # 0 /\ s.ballSkins[i].owned
        THEN [s EXCEPT !.options.ballSkinId = skinId] ELSE s

selectBackgroundSkin(s, skinId) ==
    LET i == FindSkin(s.backgroundSkins, skinId)
    IN  IF i # 0 /\ s.backgroundSkins[i].owned
        THEN [s EXCEPT !.options.backgroundSkinId = skinId] ELSE s

\* history: the request and what its caller got back ("true", "false", or
\* "undefined" from a function that returns nothing)
ShopDid(op, skinId, ret) == [op |-> op, id |-> skinId, ret |-> ret]
Returned(b) == IF b THEN "true" ELSE "false"

ShopCall(s, op, skinId, ret) ==
    /\ hist.calls < MaxShopCalls
    /\ store' = s
    /\ last' = ShopDid(op, skinId, ret)
    /\ hist' = Called(hist)
    /\ UNCHANGED <<trackVars, playerVars, commentary>>

ShopPurchaseBall ==
    \E skinId \in RequestIds :
    \E r \in {purchaseBallSkin(store, skinId)} :
        ShopCall(r.store, "purchaseBallSkin", skinId, Returned(r.ret))

ShopPurchaseBackground ==
    \E skinId \in RequestIds :
    \E r \in {purchaseBackgroundSkin(store, skinId)} :
        ShopCall(r.store, "purchaseBackgroundSkin", skinId, Returned(r.ret))

ShopSelectBall ==
    \E skinId \in RequestIds :
        ShopCall(selectBallSkin(store, skinId), "selectBallSkin", skinId,
                 "undefined")

ShopSelectBackground ==
    \E skinId \in RequestIds :
        ShopCall(selectBackgroundSkin(store, skinId), "selectBackgroundSkin",
                 skinId, "undefined")

InitShop ==
    /\ \E seed \in Seeds : Mounted(seed)
    /\ \E coins \in 0 .. MaxShopCoins, ball \in BOOLEAN, background \in BOOLEAN :
          store = ShopStore(setGameState(InitialStore(coins, 0), "SHOP"),
                            Skins(<<TRUE, ball, FALSE>>),
                            Skins(<<TRUE, FALSE, background>>),
                            [ballSkinId |-> "default",
                             backgroundSkinId |-> "default"])
    /\ hist = InitialHist
    /\ last = ShopDid("none", "none", "undefined")

NextShop ==
    \/ ShopPurchaseBall
    \/ ShopPurchaseBackground
    \/ ShopSelectBall
    \/ ShopSelectBackground

SpecShop == InitShop /\ [][NextShop]_vars

(***************************************************************************)
(* The purse: the shop's purchases together with collectCoin and direct    *)
(* spendCoins calls, in any order.                                         *)
(***************************************************************************)
\* the amounts of the direct spendCoins calls, and their names in `last`
Amounts == 0 .. MaxShopCoins + 1
AmountNames == [amount \in Amounts |-> <<"0", "1", "2", "3", "4">>[amount + 1]]

PurseCollectCoin ==
    \E s \in {collectCoin(store)} :
        ShopCall(s, "collectCoin", "none", "undefined")

PurseSpendCoins ==
    \E amount \in Amounts :
    \E r \in {spendCoins(store, amount)} :
        ShopCall(r.store, "spendCoins", AmountNames[amount], Returned(r.ret))

NextPurse ==
    \/ ShopPurchaseBall
    \/ ShopPurchaseBackground
    \/ PurseCollectCoin
    \/ PurseSpendCoins

SpecPurse == InitShop /\ [][NextPurse]_vars

(***************************************************************************)
(* The leaderboard.  Init is a first launch (nothing saved); then          *)
(* addToLeaderboard is called with any scores, as GameOverScreen's mount   *)
(* effect does with the score of the run that ended.  `last` holds, for    *)
(* each score, how often it was submitted, and the day of the last call.   *)
(***************************************************************************)
BoardSize == 10
BoardScores == 0 .. MaxBoardScore
\* new Date().toISOString().split('T')[0]
Days == <<"2026-11-05", "2026-11-06">>

BoardStore(s, leaderboard) ==
    [gameState |-> s.gameState, score |-> s.score, highScore |-> s.highScore,
     platformsCleared |-> s.platformsCleared, currentSpeed |-> s.currentSpeed,
     lives |-> s.lives, coins |-> s.coins,
     totalCoinsCollected |-> s.totalCoinsCollected,
     currentPattern |-> s.currentPattern,
     patternPlatformCount |-> s.patternPlatformCount,
     leaderboard |-> leaderboard]

\* Array.prototype.sort((a, b) => b.score - a.score): stable, descending
RECURSIVE InsertDesc(_, _)
InsertDesc(sorted, e) ==
    IF sorted = <<>> THEN <<e>>
    ELSE IF Head(sorted).score >= e.score
         THEN <<Head(sorted)>> \o InsertDesc(Tail(sorted), e)
         ELSE <<e>> \o sorted

RECURSIVE SortDesc(_)
SortDesc(entries) ==
    IF entries = <<>> THEN <<>>
    ELSE InsertDesc(SortDesc(SubSeq(entries, 1, Len(entries) - 1)),
                    entries[Len(entries)])

\* .slice(0, n)
Slice(entries, n) == SubSeq(entries, 1, Min(n, Len(entries)))

\* .map((entry, index) => ({ ...entry, rank: index + 1 }))
Ranked(entries) ==
    [i \in 1 .. Len(entries) |-> [entries[i] EXCEPT !.rank = i]]

\* a wrong order of the steps (cut to ten, then sort), to try BoardTopTen on
addToLeaderboardSliceFirst(s, score, date) ==
    [s EXCEPT !.leaderboard =
        Ranked(SortDesc(Slice(
            Append(@, [rank |-> 0, score |-> score, date |-> date]),
            BoardSize)))]

addToLeaderboard(s, score, date) ==
    [s EXCEPT !.leaderboard =
        Ranked(Slice(SortDesc(
            Append(@, [rank |-> 0, score |-> score, date |-> date])),
            BoardSize))]

\* history: the submissions so far
Submitted(counts, day) == [op |-> "addToLeaderboard", ret |-> counts, day |-> day]

BoardAdd ==
    /\ hist.calls < MaxBoardCalls
    /\ \E score \in BoardScores, day \in last.day .. Len(Days) :
          /\ store' = addToLeaderboard(store, score, Days[day])
          /\ last' = Submitted([last.ret EXCEPT ![score] = @ + 1], day)
    /\ hist' = Called(hist)
    /\ UNCHANGED <<trackVars, playerVars, commentary>>

InitBoard ==
    /\ \E seed \in Seeds : Mounted(seed)
    /\ store = BoardStore(InitialStore(0, 0), <<>>)
    /\ hist = InitialHist
    /\ last = Submitted([score \in BoardScores |-> 0], 1)

NextBoard == BoardAdd

SpecBoard == InitBoard /\ [][NextBoard]_vars

(***************************************************************************)
(* The game-over screen.  Init is a run of n credits that has just ended:  *)
(* gameState is GAME_OVER and GameOverScreen is about to run its mount     *)
(* effect.  The canvas is mounted and left alone.                          *)
(***************************************************************************)
\* GameOverScreen's mount effect: generateGameCommentary(score, highScore)
GameOverMount ==
    /\ store.gameState = "GAME_OVER" /\ commentary.pc = "idle"
    /\ \E apiKey \in ApiKeys, threw \in BOOLEAN :
          commentary' = CommentaryCall([CommentaryIdle EXCEPT !.mounted = TRUE],
                                       apiKey, threw)
    /\ UNCHANGED <<store, trackVars, playerVars, hist, last>>

CommentaryGenerate ==
    /\ commentary.pc = "awaitGenerate"
    /\ \E rejected \in BOOLEAN : commentary' = AfterGenerate(commentary, rejected)
    /\ UNCHANGED <<store, trackVars, playerVars, hist, last>>

\* a response.text() that throws is caught like a rejection
CommentaryResponse ==
    /\ commentary.pc = "awaitResponse"
    /\ \E rejected \in BOOLEAN, text \in RemoteTexts :
          commentary' = AfterResponse(commentary, rejected, text)
    /\ UNCHANGED <<store, trackVars, playerVars, hist, last>>

CommentaryThen ==
    /\ commentary.pc = "resolved"
    /\ commentary' = ThenCallback(commentary)
    /\ UNCHANGED <<store, trackVars, playerVars, hist, last>>

\* RETRY and MAIN MENU on the game-over screen: neither button reads
\* loadingCommentary; the screen is unmounted, the promise lives on
CommentaryRetry ==
    /\ store.gameState = "GAME_OVER" /\ commentary.mounted
    /\ store' = handleRetry(store)
    /\ commentary' = [commentary EXCEPT !.mounted = FALSE]
    /\ UNCHANGED <<trackVars, playerVars, hist, last>>

CommentaryToMenu ==
    /\ store.gameState = "GAME_OVER" /\ commentary.mounted
    /\ store' = setGameState(store, "MENU")
    /\ commentary' = [commentary EXCEPT !.mounted = FALSE]
    /\ UNCHANGED <<trackVars, playerVars, hist, last>>

InitCommentary ==
    /\ \E seed \in Seeds : Mounted(seed)
    /\ \E n \in 0 .. MaxCommentScore, savedHighScore \in 0 .. MaxSaved :
          /\ store = loseLifeAndEnd(
                         Credits(n, handleStart(InitialStore(0, savedHighScore)))).store
          /\ hist = [InitialHist EXCEPT !.run = 1, !.credits = n]
    /\ last = Did("none", FALSE)

NextCommentary ==
    \/ GameOverMount
    \/ CommentaryGenerate
    \/ CommentaryResponse
    \/ CommentaryThen
    \/ CommentaryRetry
    \/ CommentaryToMenu

SpecCommentary == InitCommentary /\ [][NextCommentary]_vars

(***************************************************************************)
(* Properties                                                              *)
(***************************************************************************)

\* C1: loseLife called with lives = 1 sets lives to 0 and returns true; called
\* with lives > 1 it takes exactly one life and returns false; lives is never
\* negative, whatever calls came before.
LoseLifeContract ==
    [][/\ last'.op = "loseLife" /\ hist'.calls = hist.calls + 1 =>
            /\ store.lives = 1 => store'.lives = 0 /\ last'.ret
            /\ store.lives > 1 => store'.lives = store.lives - 1 /\ ~last'.ret
       /\ store.lives >= 0 /\ store'.lives >= 0]_vars

\* a second life was gained and then lost: loseLife returned false
LoseLifeNotTerminal ==
    last.op = "loseLife" /\ ~last.ret /\ store.lives = 1 /\ hist.calls >= 2

CoinsOncePerId == store.totalCoinsCollected = Cardinality(hist.coinsHit)

\* C4: after n credits in a run the pattern is FLAT_WITH_OBSTACLES iff
\* floor(n / 20) is even, and patternPlatformCount = n mod 20, within 0..19.
PatternByCredits ==
    /\ store.currentPattern = FLAT <=> (hist.credits \div 20) % 2 = 0
    /\ store.currentPattern \in {FLAT, NONFLAT}
    /\ store.patternPlatformCount = hist.credits % 20
    /\ store.patternPlatformCount \in 0 .. 19

\* the fortieth credit of a run has just brought the pattern back to FLAT
PatternBackToFlat ==
    /\ last.op = "incrementPlatformsCleared"
    /\ hist.credits = 40 /\ store.currentPattern = FLAT

\* C5: currentSpeed = min(1.0 + floor(platformsCleared / 10) * 0.05, 2.0) (in
\* hundredths), it stays within [1.0, 2.0] and never decreases within a run.
SpeedOfCleared ==
    /\ store.currentSpeed
          = Min(100 + (store.platformsCleared \div 10) * 5, 200)
    /\ store.currentSpeed >= 100 /\ store.currentSpeed <= 200
    /\ store.platformsCleared = 0 => store.currentSpeed = 100
    /\ store.platformsCleared = 10 => store.currentSpeed = 105
    /\ store.platformsCleared >= 200 => store.currentSpeed = 200

SpeedByCredits ==
    [][/\ SpeedOfCleared /\ SpeedOfCleared'
       /\ hist'.run = hist.run => store'.currentSpeed >= store.currentSpeed]_vars

\* a credit beyond the point where the uncapped formula passes 2.0
SpeedCapped ==
    /\ last.op = "incrementPlatformsCleared"
    /\ store.platformsCleared >= 210 /\ store.currentSpeed = 200

\* C6: Retry leaves score = 0, platformsCleared = 0, lives = 1,
\* totalCoinsCollected = 0, the pattern FLAT_WITH_OBSTACLES with count 0 and
\* currentSpeed = 1.0, and keeps coins and highScore; also after a run of 12
\* credits ended by a death.
RetryResets ==
    [][hist'.run = hist.run + 1 =>
          /\ store.gameState = "GAME_OVER" /\ store'.gameState = "PLAYING"
          /\ store'.score = 0 /\ store'.platformsCleared = 0
          /\ store'.lives = 1 /\ store'.totalCoinsCollected = 0
          /\ store'.currentPattern = FLAT /\ store'.patternPlatformCount = 0
          /\ store'.currentSpeed = 100
          /\ store'.coins = store.coins
          /\ store'.highScore = store.highScore]_vars

\* the retry after a run of 12 credits, a coin and a death
RetriedAfterTwelve ==
    /\ last.op = "handleRetry" /\ hist.run = 2
    /\ store.highScore = 12 /\ store.coins > 0
    /\ store.score = 0 /\ store.gameState = "PLAYING"

\* C7: no frame runs its PLAYING part while the store has been reset for a
\* run but the window, the cursor and lastClearedPlatform or the collected-id
\* sets are still those of another run (or the other way round).
ResetAtomic ==
    [][hist'.frames # hist.frames =>
          /\ hist.refsRun = hist.run
          /\ hist.windowRun = hist.run
          /\ hist.setsRun = hist.run]_vars

\* C8: within a run score never decreases.
ScoreMonotone ==
    [][hist'.run = hist.run => store'.score >= store.score]_vars

\* both accumulations have raised the score in this run
ScoreRaisedTwice ==
    /\ hist.credits > 0 /\ hist.maxFloor > 0
    /\ store.score > hist.maxFloor

\* C9: at every state of a run score is the maximum of the number of credits
\* of the run and the largest displacement the score floor has seen, never
\* more.
ScoreIsMax == store.score = Max(hist.credits, hist.maxFloor)

\* C10: GAME_OVER is entered only from PLAYING, and while gameState is not
\* PLAYING nothing but the user's start, retry or resume changes lives,
\* score, coins or platformsCleared.
IdleIsQuiet ==
    [][store.gameState # "PLAYING" =>
          /\ store'.gameState = "GAME_OVER" => store.gameState = "GAME_OVER"
          /\ store'.gameState # "PLAYING" =>
                /\ store'.lives = store.lives
                /\ store'.score = store.score
                /\ store'.coins = store.coins
                /\ store'.platformsCleared = store.platformsCleared]_vars

\* C11: the pause toggle is a two-state switch: invoked in PLAYING it moves
\* gameState to PAUSED, invoked in PAUSED it moves it back to PLAYING, and it
\* is invoked from no other state.
PauseToggles ==
    [][last'.op = "togglePause" /\ hist'.calls = hist.calls + 1 =>
          /\ store.gameState \in {"PLAYING", "PAUSED"}
          /\ store.gameState = "PLAYING" => store'.gameState = "PAUSED"
          /\ store.gameState = "PAUSED" => store'.gameState = "PLAYING"]_vars

\* C12: pausing leaves the simulation untouched: while PAUSED no frame changes
\* the window, the cursor, the collected-id sets, RunState or the player, and
\* neither the pause nor the resume changes anything but gameState, so after
\* PLAYING -> PAUSED -> PLAYING the player (cached position, camera, jump
\* flag), the window and the run-scoped fields are what they were at the pause.
PauseKeepsState ==
    [][/\ store.gameState = "PAUSED" /\ store'.gameState = "PAUSED" =>
            UNCHANGED <<store, windowVars, queueVars, refVars, playerVars>>
       /\ (\/ store.gameState = "PLAYING" /\ store'.gameState = "PAUSED"
           \/ store.gameState = "PAUSED" /\ store'.gameState = "PLAYING") =>
            /\ store' = [store EXCEPT !.gameState = store'.gameState]
            /\ UNCHANGED <<windowVars, refVars, pos, camera, canJump>>]_vars

\* C13: when the first PLAYING tick of a run executes, the window holds
\* exactly the segments 0..11 that initTrack chains from the origin, both
\* collected-id sets are empty and lastClearedPlatform = -1.  (The first tick
\* of a run is the tick that finds no platform credited in the run yet.)
FreshWindow ==
    \E r \in 1 .. Len(DrawTable), p \in {FLAT, NONFLAT} :
        segments = InitialFrom(0, p, Origin, r).segs

FirstTickFresh ==
    [][hist'.frames # hist.frames /\ hist.credits = 0 /\ segments # <<>> =>
          /\ FreshWindow
          /\ Len(segments) = InitialSegments
          /\ \A i \in 1 .. Len(segments) : segments[i].platformIndex = i - 1
          /\ collectedCoins = {} /\ collectedHearts = {}
          /\ lastClearedPlatform = -1]_vars

\* C14: reseeding is edge-triggered: initTrack (seen by the "set" updates it
\* queues) runs only in a step that changes gameState, once, never in a frame,
\* and never on PAUSED -> PLAYING; so frames spent in MENU or PAUSED do not
\* reseed the window or clear the collected-id sets.
NumSets(q) == Len(SelectSeq(q, LAMBDA e : e.op = "set"))

InitTrackRan ==
    \/ NumSets(segQ') > NumSets(segQ)
    \/ NumSets(coinQ') > NumSets(coinQ)
    \/ NumSets(heartQ') > NumSets(heartQ)

ReseedOnEdge ==
    [][/\ InitTrackRan =>
            /\ store'.gameState # store.gameState
            /\ hist'.frames = hist.frames
            /\ NumSets(segQ') = NumSets(segQ) + 1
            /\ NumSets(coinQ') = NumSets(coinQ) + 1
            /\ NumSets(heartQ') = NumSets(heartQ) + 1
            /\ ~(store.gameState = "PAUSED" /\ store'.gameState = "PLAYING")
       /\ store'.gameState = store.gameState => UNCHANGED lastClearedPlatform
                                                 \/ hist'.frames # hist.frames]_vars

\* a run resumed from PAUSED with its window and its refs kept
ResumedNotReseeded ==
    /\ store.gameState = "PLAYING" /\ hist.run = 1 /\ hist.pauses = 1
    /\ hist.windowRun = 1 /\ NumSets(segQ) = 0
    /\ lastClearedPlatform >= 0 /\ collectedCoins # {}

\* every segment of the committed window and of the queued updates
SegsOf(q) == UNION {{q[k].segs[i] : i \in 1 .. Len(q[k].segs)} : k \in 1 .. Len(q)}
AllSegments == {segments[i] : i \in 1 .. Len(segments)} \cup SegsOf(segQ)

\* C15: in a freshly (re)seeded window every segment with index <= 5 has type
\* NORMAL, width 16, yaw 0, bank 0 and no obstacles, whatever currentPattern
\* was when the window was seeded.
SafeStart ==
    \A seg \in AllSegments :
        seg.platformIndex <= 5 =>
            /\ seg.type = "NORMAL" /\ seg.width = 16
            /\ seg.yaw = 0 /\ seg.bank = 0
            /\ seg.obstacles = <<>>

\* a committed window that was seeded under NON_FLAT_NO_OBSTACLES, with a
\* variant beyond index 8
SeededNonFlat ==
    /\ store.gameState = "MENU" /\ store.currentPattern = NONFLAT
    /\ Len(segments) = InitialSegments /\ hist.windowRun = 1
    /\ \E i \in 1 .. Len(segments) : segments[i].type # "NORMAL"

\* C16: a generated segment carries a heart iff index > 0 and index mod 20 = 0,
\* then exactly one, with the id of its index; every segment carries exactly
\* one coin (the id of its index).
HeartEveryTwenty ==
    \A seg \in AllSegments :
        /\ seg.heart # <<>> <=> seg.platformIndex > 0 /\ seg.platformIndex % 20 = 0
        /\ Len(seg.heart) <= 1
        /\ seg.heart # <<>> => seg.heart[1].id = seg.platformIndex
        /\ seg.coin.id = seg.platformIndex

\* the window holds the platforms 20 and 40 with their hearts, and platform 0
HeartsAtTwentyAndForty ==
    /\ \E i \in 1 .. Len(segments) :
          segments[i].platformIndex = 20 /\ segments[i].heart # <<>>
    /\ \E i \in 1 .. Len(segments) :
          segments[i].platformIndex = 40 /\ segments[i].heart # <<>>
    /\ segments[1].platformIndex = 0 /\ segments[1].heart = <<>>

\* C17: segments chain without gaps or overlaps: for consecutive segments of
\* the window as stored, the start of the second (centre minus half its length
\* along its own forward direction) is the end of the first (centre plus half
\* its length along its own forward direction), up to one rounding step.
HalfAlong(seg) ==
    LET fwd == ApplyEulerYXZ(Vec(0, 0, -100), seg.slope, seg.yaw, 0)
        half == (seg.length * Scale) \div 2
    IN  Vec(Round100(fwd[1] * half), Round100(fwd[2] * half), Round100(fwd[3] * half))

SegStart(seg) == VSub(seg.position, HalfAlong(seg))
SegEnd(seg) == VAdd(seg.position, HalfAlong(seg))
Near(a, b) == \A k \in 1 .. 3 : Abs(a[k] - b[k]) <= 1

SegmentsChain ==
    \A i \in 1 .. Len(segments) - 1 :
        segments[i + 1].platformIndex = segments[i].platformIndex + 1 =>
            Near(SegStart(segments[i + 1]), SegEnd(segments[i]))

\* C18: 0 <= lives <= maxLives (3) before and after every step, whatever the
\* order of addLife, loseLife and resetGame; lives = 1 right after resetGame;
\* addLife at lives = maxLives leaves lives as it is.
LivesInRange ==
    [][/\ store.lives \in 0 .. 3 /\ store'.lives \in 0 .. 3
       /\ hist'.run = hist.run + 1 => store'.lives = 1
       /\ last'.op = "addLife" /\ hist'.calls = hist.calls + 1
             /\ store.lives = 3 => store'.lives = 3]_vars

\* an addLife call that found three lives, and a loseLife call after it
AddLifeAtMax ==
    /\ hist.capped /\ store.lives = 2
    /\ last = Did("loseLife", FALSE)

\* C19: a loseLife call changes no field of the store but lives (gameState,
\* score, coins, platformsCleared, currentPattern, currentSpeed and the rest
\* are as before), whether it returns true or false.
LoseLifeOnlyLives ==
    [][last'.op = "loseLife" /\ hist'.calls = hist.calls + 1 =>
          /\ store' = [store EXCEPT !.lives = store'.lives]
          /\ store'.gameState = store.gameState
          /\ store'.score = store.score /\ store'.coins = store.coins
          /\ store'.platformsCleared = store.platformsCleared
          /\ store'.currentPattern = store.currentPattern
          /\ store'.currentSpeed = store.currentSpeed]_vars

\* the last life was lost after credits and a coin: loseLife has returned
\* true and the game is still PLAYING
LastLifeLostStillPlaying ==
    /\ last = Did("loseLife", TRUE)
    /\ store.lives = 0 /\ store.gameState = "PLAYING"
    /\ store.platformsCleared >= 20 /\ store.totalCoinsCollected >= 1

\* C20: in every state currentSpeed is what updateSpeed would compute from
\* platformsCleared, so an updateSpeed call after any sequence of credits and
\* resets changes nothing.
SpeedSitesAgree ==
    [][/\ updateSpeed(store).currentSpeed = store.currentSpeed
       /\ updateSpeed(store').currentSpeed = store'.currentSpeed
       /\ last'.op = "updateSpeed" /\ hist'.calls = hist.calls + 1 =>
             store' = store]_vars

\* updateSpeed called right after a credit that raised the speed
UpdateSpeedAfterCredit ==
    /\ last.op = "updateSpeed" /\ hist.calls >= 2
    /\ store.platformsCleared >= 10 /\ store.platformsCleared % 10 = 0
    /\ store.currentSpeed > 100 /\ store.currentSpeed < 200

\* C21: an invalid shop request fails as a reported boolean and changes
\* nothing: a purchase of an unknown id, of an owned skin or with coins <
\* price returns false and leaves coins, the skin lists and options as they
\* were; selecting an unowned or unknown skin is reported as a failure and
\* leaves options as they were.
Purchasable(skins, coins, skinId) ==
    \E i \in 1 .. Len(skins) :
        /\ skins[i].id = skinId /\ ~skins[i].owned /\ coins >= skins[i].price
        /\ \A j \in 1 .. i - 1 : skins[j].id # skinId

Selectable(skins, skinId) ==
    \E i \in 1 .. Len(skins) : skins[i].id = skinId /\ skins[i].owned

PurchaseFailuresReported ==
    /\ last'.op = "purchaseBallSkin"
          /\ ~Purchasable(store.ballSkins, store.coins, last'.id) =>
             last'.ret = "false" /\ store' = store
    /\ last'.op = "purchaseBackgroundSkin"
          /\ ~Purchasable(store.backgroundSkins, store.coins, last'.id) =>
             last'.ret = "false" /\ store' = store

SelectFailuresReported ==
    /\ last'.op = "selectBallSkin" /\ ~Selectable(store.ballSkins, last'.id) =>
          last'.ret = "false" /\ store'.options = store.options
    /\ last'.op = "selectBackgroundSkin"
          /\ ~Selectable(store.backgroundSkins, last'.id) =>
             last'.ret = "false" /\ store'.options = store.options

ShopFailuresReported ==
    [][hist'.calls = hist.calls + 1 =>
          PurchaseFailuresReported /\ SelectFailuresReported]_vars

\* the two halves on their own, and the selection half without the report
PurchaseFailuresOnly ==
    [][hist'.calls = hist.calls + 1 => PurchaseFailuresReported]_vars

SelectFailuresKeepOptions ==
    [][hist'.calls = hist.calls + 1 =>
          /\ last'.op = "selectBallSkin"
                /\ ~Selectable(store.ballSkins, last'.id) => store' = store
          /\ last'.op = "selectBackgroundSkin"
                /\ ~Selectable(store.backgroundSkins, last'.id) =>
                   store' = store]_vars

\* C22: a tick (TrackManager.useFrame) on an empty window is a guarded no-op:
\* it changes no window, collected-id set, queued update, cursor or counter,
\* and no field of the store.  (Player.useFrame runs in the same frame: the
\* score is what its score floor makes of the ball's displacement, and every
\* other field of the store is as before.)
EmptyTickIsNoOp ==
    [][hist'.frames # hist.frames /\ segments = <<>> =>
          /\ UNCHANGED <<segments, collectedCoins, collectedHearts>>
          /\ UNCHANGED <<segQ, coinQ, heartQ>>
          /\ UNCHANGED <<nextStartPos, platformCounter, lastClearedPlatform, rng>>
          /\ UNCHANGED prevGameState
          /\ store' = [store EXCEPT !.score = Max(store.score, Abs(pos[3]) \div 4)]
          /\ store'.platformsCleared = 0 /\ store'.lives = 1]_vars

\* two frames have run while PLAYING on the empty window, the ball has moved
\* and the seeded window is still queued
TickedOnEmptyWindow ==
    /\ store.gameState = "PLAYING" /\ segments = <<>> /\ segQ # <<>>
    /\ hist.frames >= 2 /\ store.score > 0

\* C23: generateGameCommentary never rejects and never blocks the game: when
\* the API key is missing, when the remote call throws (or rejects) and when
\* it returns empty text, the promise resolves to a fixed fallback string;
\* and while the promise is pending the game-over screen's RETRY works.
CommentaryFallsBack ==
    /\ commentary.pc # "rejected"
    /\ commentary.pc \in {"resolved", "done"} =>
          /\ commentary.cause = "nokey" =>
                commentary.text
                   = "API key not configured. Set VITE_GEMINI_API_KEY in your environment."
          /\ commentary.cause = "threw" =>
                commentary.text = "Communication systems offline."
          /\ commentary.cause = "empty" =>
                commentary.text = "Connection terminated. Try again runner."
          /\ commentary.text # ""
    /\ store.gameState = "GAME_OVER" /\ commentary.pc # "idle" =>
          ENABLED CommentaryRetry

\* the remote call failed at its second await and the screen shows the
\* fallback
OfflineShown ==
    /\ commentary.pc = "done" /\ commentary.cause = "threw"
    /\ commentary.mounted /\ ~commentary.loading
    /\ commentary.shown = OfflineText

\* C24: platform-clear crediting is monotonic and single-increment: within a
\* run (gameState stays PLAYING or PAUSED) lastClearedPlatform never decreases;
\* a tick calls incrementPlatformsCleared exactly once when the nearest
\* segment's index exceeds lastClearedPlatform, however many indices were
\* skipped, and not at all otherwise; hence platformsCleared <=
\* lastClearedPlatform + 1 at all times.
InRun(state) == state \in {"PLAYING", "PAUSED"}

\* the tick's credit: the nearest segment is read off the committed window
\* at the camera position Player.useFrame left
CreditedOnce ==
    /\ InRun(store.gameState) /\ InRun(store'.gameState) /\ hist'.run = hist.run =>
          lastClearedPlatform' >= lastClearedPlatform
    /\ hist'.frames # hist.frames /\ segments # <<>> =>
          \E nearest \in {ClosestSeg(segments, VSub(camera', Vec(0, 26, 52)))} :
             IF nearest.platformIndex > lastClearedPlatform
             THEN /\ lastClearedPlatform' = nearest.platformIndex
                  /\ store'.platformsCleared = store.platformsCleared + 1
                  /\ hist'.credits = hist.credits + 1
             ELSE /\ lastClearedPlatform' = lastClearedPlatform
                  /\ store'.platformsCleared = store.platformsCleared
                  /\ hist'.credits = hist.credits
    /\ hist'.frames = hist.frames /\ hist'.run = hist.run =>
          store'.platformsCleared = store.platformsCleared

HeartsOncePerId == hist.lifeCalls <= Cardinality(hist.heartsHit)

\* the indices of a window run from its first one upwards without a gap
Contiguous(segs) ==
    \A i \in 1 .. Len(segs) :
        segs[i].platformIndex = segs[1].platformIndex + (i - 1)

IsSuffix(a, b) ==
    \E n \in 0 .. Len(b) : a = SubSeq(b, n + 1, Len(b))

\* the window after the first k queued setSegments calls
WindowAfter(k) == ApplySegQ(segments, SubSeq(segQ, 1, k))

\* the queued calls spawned since the window the frames read was committed
QueuedAppends == {k \in 1 .. Len(segQ) : segQ[k].op = "append"}

\* C26: the window's indices are strictly ascending and contiguous, in the
\* committed window and after each queued update; an appended segment has
\* the index of the previous last segment + 1, also when several frames run
\* before a commit; no index is generated twice in a run (the counter only
\* grows between reseeds, by one per generated segment); eviction removes
\* only a prefix of the window.
WindowOrdered ==
    /\ Contiguous(segments)
    /\ \A k \in 1 .. Len(segQ) :
          \E before \in {WindowAfter(k - 1)}, after \in {WindowAfter(k)} :
             /\ Contiguous(after)
             /\ segQ[k].op = "append" /\ before # <<>> =>
                   after[Len(after)].platformIndex
                      = before[Len(before)].platformIndex + 1
             /\ segQ[k].op = "filter" => IsSuffix(after, before)
    /\ \E w \in {WindowAfter(Len(segQ))} :
          w # <<>> => w[Len(w)].platformIndex = platformCounter

WindowContiguous ==
    [][/\ WindowOrdered /\ WindowOrdered'
       /\ platformCounter' # platformCounter =>
             \/ /\ platformCounter' = platformCounter + 1
                /\ Len(segQ') > Len(segQ)
                /\ \E k \in Len(segQ) + 1 .. Len(segQ') :
                      /\ segQ'[k].op = "append"
                      /\ segQ'[k].segs[1].platformIndex = platformCounter'
             \/ /\ platformCounter' = InitialSegments - 1
                /\ hist'.refsRun # hist.refsRun \/ hist'.run # hist.run
                /\ segQ'[Len(segQ')].op = "set"]_vars

\* two frames have each spawned a segment before a commit, and a queued
\* eviction removes a segment
SpawnedTwiceBeforeCommit ==
    /\ Cardinality(QueuedAppends) >= 2
    /\ segments # <<>>
    /\ \E k \in 1 .. Len(segQ) :
          segQ[k].op = "filter" /\ Len(WindowAfter(k)) < Len(WindowAfter(k - 1))

\* the segments of a window as a set (a segment is told by its index and
\* its position)
SegSetOf(segs) == {segs[i] : i \in 1 .. Len(segs)}

QueuedFilters == {k \in 1 .. Len(segQ) : segQ[k].op = "filter"}
QueuedSets == {k \in 1 .. Len(segQ) : segQ[k].op = "set"}

\* C27: eviction is a filter on position with a fixed margin.  A frame on a
\* window that is not empty queues one filter, and that filter removes from
\* the window exactly the segments whose centre z is >= playerZ + 100 with
\* playerZ = camera z - 13, in the window's order; so no segment at or
\* ahead of the player is removed.  Segments leave the committed window
\* only in a commit, and then by a queued reseed or by a queued filter
\* whose threshold they are at or beyond.
EvictionStep ==
    /\ hist'.frames # hist.frames /\ segments # <<>> =>
          \E playerZ \in {camera'[3] - 13 * Scale} :
          \E e \in {segQ'[Len(segQ')]} :
          \E after \in {ApplySeg(segments, e)} :
             /\ e.op = "filter"
             /\ Cardinality({k \in 1 .. Len(segQ') : segQ'[k].op = "filter"})
                   = Cardinality(QueuedFilters) + 1
             /\ SegSetOf(segments) \ SegSetOf(after)
                   = {s \in SegSetOf(segments) :
                         s.position[3] >= playerZ + 100 * Scale}
             /\ \A s \in SegSetOf(segments) :
                   s.position[3] <= playerZ => s \in SegSetOf(after)
             /\ \A i, j \in 1 .. Len(after) :
                   i < j => after[i].platformIndex < after[j].platformIndex
    /\ segments' # segments =>
          /\ segQ # <<>> /\ segQ' = <<>>
          /\ QueuedSets = {} =>
                \A s \in SegSetOf(segments) \ SegSetOf(segments') :
                   \E k \in QueuedFilters : s.position[3] >= segQ[k].threshold
          /\ QueuedSets = {} =>
                \A s \in SegSetOf(segments), k \in QueuedFilters :
                   s.position[3] >= segQ[k].threshold
                      => s \notin SegSetOf(segments')

EvictionByPosition == [][EvictionStep]_vars

\* a commit has evicted segments of the run at the heart: the window begins
\* past the platform it began with
EvictedBehind ==
    /\ segQ = <<>> /\ segments # <<>>
    /\ platformCounter >= LastAtHeart
    /\ segments[1].platformIndex >= HeartEvery

\* a step that generates a segment, the segment and the pattern read
Generates == platformCounter' = platformCounter + 1 /\ segQ' # segQ
Generated == segQ'[Len(segQ')].segs[1]

\* C28: the variant of a generated segment is eligible for the pattern read
\* at generation time: under FLAT_WITH_OBSTACLES the type is NORMAL or NARROW
\* and the slope is -0.1; under NON_FLAT_NO_OBSTACLES the type is NORMAL,
\* STEEP, TURN or BANKED, never NARROW; a segment of index <= 8 is NORMAL.
SegmentEligible ==
    [][Generates =>
          /\ store.currentPattern = FLAT =>
                Generated.type \in {"NORMAL", "NARROW"} /\ Generated.slope = -10
          /\ store.currentPattern = NONFLAT =>
                Generated.type \in {"NORMAL", "STEEP", "TURN", "BANKED"}
          /\ store.currentPattern \in {FLAT, NONFLAT}
          /\ Generated.platformIndex = platformCounter'
          /\ Generated.platformIndex <= 8 => Generated.type = "NORMAL"]_vars

\* a NARROW segment generated under FLAT_WITH_OBSTACLES is in the window
NarrowOnFlat ==
    /\ segments # <<>> /\ store.currentPattern = FLAT
    /\ segments[1].type = "NARROW" /\ segments[1].platformIndex > 8

\* C29: a generated segment has obstacles only if it was generated under
\* FLAT_WITH_OBSTACLES, its index is > 5 and its width is >= 9; a segment
\* generated under NON_FLAT_NO_OBSTACLES has none.
ObstaclesOnlyOnFlat ==
    [][Generates =>
          /\ Generated.obstacles # <<>> =>
                /\ store.currentPattern = FLAT
                /\ Generated.platformIndex > 5
                /\ Generated.width >= 9
          /\ store.currentPattern = NONFLAT => Generated.obstacles = <<>>]_vars

\* platform 6, generated under FLAT_WITH_OBSTACLES, carries an obstacle
ObstacleOnSixth ==
    /\ segments # <<>> /\ store.currentPattern = FLAT
    /\ segments[1].platformIndex = 6 /\ segments[1].obstacles # <<>>

\* the lane an obstacle was assigned to, told from its x: the lanes lie at
\* -width / 2.8, 0 and width / 2.8, the jitter is below 1
LaneAt(seg, o) ==
    LET lanex == (seg.width * Scale * 10) \div 28
    IN  IF 2 * o.position[1] < -lanex THEN 0
        ELSE IF 2 * o.position[1] > lanex THEN 2 ELSE 1

AssignedLanes(seg) ==
    {LaneAt(seg, seg.obstacles[i]) : i \in 1 .. Len(seg.obstacles)}

\* C30: a generated segment holds at most 2 obstacles, each assigned to one
\* of the 3 lanes, so at least one lane has no obstacle assigned to it.
ClearLane ==
    [][Generates =>
          /\ Len(Generated.obstacles) <= 2
          /\ AssignedLanes(Generated) \subseteq 0 .. 2
          /\ \E lane \in 0 .. 2 : lane \notin AssignedLanes(Generated)]_vars

\* a segment with two obstacles, in the two outer lanes
TwoLanesTaken ==
    /\ segments # <<>> /\ Len(segments[1].obstacles) = 2
    /\ AssignedLanes(segments[1]) = {0, 2}

\* C31: no double jump.  A frame applies the jump impulse only when canJump
\* is true and clears the flag in the same frame; the flag is set by a
\* collision event only, so between two impulses there is a collision
\* event; on entry into PLAYING the flag is false.
NoDoubleJump ==
    [][/\ hist'.impulses # hist.impulses =>
             /\ hist'.impulses = hist.impulses + 1
             /\ hist'.frames = hist.frames + 1
             /\ store.gameState = "PLAYING"
             /\ canJump /\ ~canJump'
             /\ hist.sinceJump # "jumped"
       /\ ~canJump /\ canJump' =>
             /\ hist'.frames = hist.frames
             /\ hist.sinceJump = "jumped" => hist'.sinceJump = "collided"
       /\ store.gameState # "PLAYING" /\ store'.gameState = "PLAYING" =>
             ~canJump']_vars

\* a second impulse has been applied, after a collision that followed the
\* first one
JumpedTwice == hist.impulses >= 2 /\ hist.sinceJump = "jumped" /\ ~canJump

\* a frame of TrackManager on a window that is not empty
TickOnWindow == hist'.frames # hist.frames /\ segments # <<>>

\* lives when the frame reaches the death detection: the addLife calls of
\* the frame come before it
LivesAtDetection ==
    Min(store.lives + (hist'.lifeCalls - hist.lifeCalls), maxLives)

\* C32: in a PLAYING frame on a window that is not empty, the fall detection
\* calls loseLife exactly when the estimated player y is more than 40 units
\* below the nearest segment's centre y and lives > 0, once (lives drops by
\* one), and sets GAME_OVER exactly when the call returns true (lives has
\* reached 0); with lives = 0 it calls nothing.
FallDetection ==
    [][TickOnWindow =>
          \E est \in {VSub(camera', Vec(0, 26, 13 * Scale))} :
          \E nearest \in {ClosestSeg(segments, est)} :
          \E lives \in {LivesAtDetection} :
             /\ store.gameState = "PLAYING"
             /\ IF est[2] < nearest.position[2] - 40 * Scale /\ lives > 0
                THEN /\ store'.lives = lives - 1
                     /\ store'.gameState = "GAME_OVER" <=> lives <= 1
                     /\ store'.gameState \in {"PLAYING", "GAME_OVER"}
                ELSE /\ store'.lives = lives
                     /\ store'.gameState = "PLAYING"]_vars

\* the ball has fallen with a life to spare: a life gained at the heart is
\* lost and the game goes on
FellAndSurvived ==
    /\ store.gameState = "PLAYING" /\ hist.lifeCalls >= 1
    /\ store.lives >= 1
    /\ store.lives < Min(1 + hist.lifeCalls, maxLives)

\* the places in the window segs of the segments at the minimum distance
\* from p
NearestPlaces(segs, p) ==
    {i \in 1 .. Len(segs) :
        \A j \in 1 .. Len(segs) :
            Dist2(p, segs[i].position) <= Dist2(p, segs[j].position)}

FirstOf(S) == CHOOSE i \in S : \A j \in S : i <= j

\* C33: the nearest-segment scan of a frame finds a segment at the minimum
\* distance from the estimated player position, and of several at that
\* distance the first in window order: the platform the frame credits is
\* that segment's.
NearestFirst ==
    [][TickOnWindow =>
          \E est \in {VSub(camera', Vec(0, 26, 13 * Scale))} :
          \E near \in {NearestPlaces(segments, est)} :
             /\ near # {}
             /\ ClosestSeg(segments, est) = segments[FirstOf(near)]
             /\ lastClearedPlatform'
                   = Max(lastClearedPlatform,
                         segments[FirstOf(near)].platformIndex)]_vars

\* a frame has run with the ball half way between two platforms, both at
\* the minimum distance, and has credited the first of them
TieCreditedFirst ==
    /\ hist.frames = 1 /\ ~posFresh /\ segments # <<>>
    /\ \E near \in {NearestPlaces(segments,
                                   VSub(camera, Vec(0, 26, 13 * Scale)))} :
          /\ Cardinality(near) = 2
          /\ lastClearedPlatform = segments[FirstOf(near)].platformIndex
          /\ lastClearedPlatform >= 1

\* C34: highScore is an upper bound of score in every reachable state, after
\* any sequence of platform credits and score-floor updates.
HighScoreBounds == store.highScore >= store.score

\* a frame that reads a position cached before the reset of the ball, in a
\* behaviour without a pause: the reset was that of a start or a retry
StaleTick == hist'.frames # hist.frames /\ hist.posStale /\ hist.pauses = 0

\* C35: after a start or retry the position cached before the reset never
\* feeds the new run, whatever the order of the position report and the
\* first frames: a frame that reads it does not raise the score (beyond the
\* point of a platform credit) and does not fire the fall detection.
StaleNeverFeeds ==
    [][StaleTick =>
          /\ store'.score - store.score <= hist'.credits - hist.credits
          /\ store'.lives = store.lives
          /\ store'.gameState = "PLAYING"]_vars

\* C36: at the first PLAYING frame of a run (the frame that finds no
\* platform credited yet), reached from MENU or by retry, every segment of
\* the window was generated under the pattern the store holds at that
\* moment, FLAT_WITH_OBSTACLES: the window holds no STEEP, TURN or BANKED
\* segment.
OpeningWindowFlat ==
    [][hist'.frames # hist.frames /\ hist.credits = 0 /\ segments # <<>> =>
          /\ store.currentPattern = FLAT
          /\ \A i \in 1 .. Len(segments) :
                segments[i].type \in {"NORMAL", "NARROW"}]_vars

\* the skins (list, place) that turn from unowned to owned in a step
Bought ==
    {<<"ball", i>> : i \in {j \in 1 .. Len(store.ballSkins) :
                               ~store.ballSkins[j].owned
                               /\ store'.ballSkins[j].owned}}
    \cup {<<"background", i>> :
             i \in {j \in 1 .. Len(store.backgroundSkins) :
                      ~store.backgroundSkins[j].owned
                      /\ store'.backgroundSkins[j].owned}}

PriceOf(b) ==
    IF b[1] = "ball" THEN store.ballSkins[b[2]].price
    ELSE store.backgroundSkins[b[2]].price

\* coins fell by the price of exactly one skin bought in the step
PaidForOne ==
    /\ Cardinality(Bought) = 1
    /\ \A b \in Bought : store.coins - store'.coins = PriceOf(b)

\* coins is never negative, no skin turns unowned, lists keep ids and prices
PurseKept ==
    /\ store.coins >= 0 /\ store'.coins >= 0
    /\ Len(store'.ballSkins) = Len(store.ballSkins)
    /\ Len(store'.backgroundSkins) = Len(store.backgroundSkins)
    /\ \A i \in 1 .. Len(store.ballSkins) :
          /\ store.ballSkins[i].owned => store'.ballSkins[i].owned
          /\ store'.ballSkins[i].price = store.ballSkins[i].price
    /\ \A i \in 1 .. Len(store.backgroundSkins) :
          /\ store.backgroundSkins[i].owned => store'.backgroundSkins[i].owned
          /\ store'.backgroundSkins[i].price = store.backgroundSkins[i].price
    /\ Bought # {} => Cardinality(Bought) = 1 /\ PaidForOne

\* C37: coins is never negative after any sequence of collectCoin,
\* spendCoins (amounts >= 0) and purchase calls; every decrease of coins
\* equals the price of exactly one skin that turns from unowned to owned in
\* the same operation; an owned skin is never charged again and never turns
\* unowned.
PurseSound ==
    [][/\ PurseKept
       /\ store'.coins < store.coins => PaidForOne]_vars

\* C37 as amended: every decrease of coins made by a purchase call equals
\* the price of exactly one skin that turns from unowned to owned in it; a
\* direct spendCoins(amount) call takes exactly amount when coins >= amount
\* and nothing otherwise, and buys nothing.
PurseSoundByPurchase ==
    [][/\ PurseKept
       /\ store'.coins < store.coins =>
             \/ /\ last'.op \in {"purchaseBallSkin", "purchaseBackgroundSkin"}
                /\ last'.ret = "true"
                /\ PaidForOne
             \/ /\ last'.op = "spendCoins" /\ last'.ret = "true"
                /\ Bought = {}
       /\ last'.op = "spendCoins" /\ hist'.calls # hist.calls =>
             \E amount \in Amounts :
                /\ last'.id = AmountNames[amount]
                /\ Bought = {}
                /\ IF store.coins >= amount
                   THEN store'.coins = store.coins - amount /\ last'.ret = "true"
                   ELSE store'.coins = store.coins /\ last'.ret = "false"]_vars

\* a collected coin has paid for the skin of price 1, which empties the purse
PaidWithCollected ==
    /\ last.op \in {"purchaseBallSkin", "purchaseBackgroundSkin"}
    /\ last.ret = "true" /\ last.id = "neon"
    /\ store.totalCoinsCollected >= 1 /\ store.coins = 0

RECURSIVE SumOver(_, _)
SumOver(counts, S) ==
    IF S = {} THEN 0
    ELSE LET v == CHOOSE x \in S : TRUE
         IN  counts[v] + SumOver(counts, S \ {v})

\* how many entries of the board carry the score v
OnBoard(v) ==
    Cardinality({i \in 1 .. Len(store.leaderboard) :
                    store.leaderboard[i].score = v})

\* C38: after any sequence of addToLeaderboard calls the leaderboard holds
\* at most 10 entries, sorted by score in non-increasing order, with rank =
\* position + 1 (positions counted from 0), and it holds the 10 highest
\* scores submitted so far, or all of them when there are fewer than 10.
BoardTopTen ==
    /\ Len(store.leaderboard) <= 10
    /\ Len(store.leaderboard) = Min(10, SumOver(last.ret, DOMAIN last.ret))
    /\ \A i \in 1 .. Len(store.leaderboard) :
          /\ store.leaderboard[i].rank = i
          /\ i > 1 => store.leaderboard[i - 1].score >= store.leaderboard[i].score
    /\ \A v \in DOMAIN last.ret :
          OnBoard(v)
             = Min(last.ret[v],
                   Max(0, 10 - SumOver(last.ret,
                                       {w \in DOMAIN last.ret : w > v})))

\* an eleventh score has pushed the lowest one off a full board
LowestPushedOff ==
    /\ Len(store.leaderboard) = 10
    /\ SumOver(last.ret, DOMAIN last.ret) = 11
    /\ last.ret[0] = 1 /\ OnBoard(0) = 0
    /\ store.leaderboard[10].score = 1 /\ store.leaderboard[1].score = 3

\* the fall condition has held in every frame since the ball left the track
FellEveryTick == hist.fallTicks = hist.frames

\* C39: a fall is eventually fatal: if in PLAYING the fall condition holds
\* on every tick, lives decreases by one on each tick and gameState reaches
\* GAME_OVER after at most maxLives ticks, provided ticks keep running.
FallFatal ==
    /\ [](FellEveryTick =>
            /\ store.lives = Max(last.ret - hist.frames, 0)
            /\ hist.frames <= maxLives
            /\ store.gameState = "GAME_OVER" <=> hist.frames >= last.ret)
    /\ ([](store.gameState = "PLAYING" => FellEveryTick)
            => <>(store.gameState = "GAME_OVER"))

\* three lives lost to a fall in three frames running
FellThrice ==
    /\ store.gameState = "GAME_OVER" /\ store.lives = 0
    /\ last.ret = maxLives /\ hist.frames = maxLives /\ FellEveryTick

====
